---- MODULE Spec2Model ----
(***************************************************************************)
(* Trade lifecycle and risk-management engine of the Gauls copy-trading   *)
(* system: the copy trader (signal ingestion, own update path), the exit  *)
(* monitor (price loop) and the trade update processor (message loop),    *)
(* all working on the shared SQLite ledger.                               *)
(*                                                                         *)
(* Numbers are fixed point.  Prices are in tenths of a quote unit         *)
(* (PriceScale), quantities in 1/10000 of a base unit (QtyScale), so the  *)
(* 0.0001 "fully closed" threshold of the exit monitor is one quantity    *)
(* unit.  P&L is price * quantity in those units.  Float products with a  *)
(* percentage are truncated to the quantity unit.                         *)
(***************************************************************************)
EXTENDS Integers, Sequences, FiniteSets, TLC

\* ------------------------------------------------------------------ bounds
MaxTrades == 2
MaxRestarts == 1
MaxUpdateRows == 2
MaxExitOrders == 2

\* ------------------------------------------------------- program constants
PriceScale == 10
QtyScale == 10000
MAX_LOSS_PER_TRADE_EUR == 25
GAULS_LEVERAGE == 10
MARGIN_USAGE_PCT == 90
tp1_exit_percent == 40
tp2_exit_percent == 30
ClosedEpsilon == 1
safety_limit == 1000
BreakevenLongPermille == 1001
BreakevenShortPermille == 999

Money(x) == x * PriceScale * QtyScale

\* SQL NULL / Python None and the "x or y" idiom of the row readers
Null == <<>>
Some(v) == <<v>>
OrElse(x, d) == IF x = Null \/ x = Some(0) THEN d ELSE x[1]

Min(a, b) == IF a <= b THEN a ELSE b
Abs(a) == IF a < 0 THEN 0 - a ELSE a

Pollers == {1, 2}
TradeIds == 1..MaxTrades

\* ------------------------------------------------------ the signal archive
\* Rows of gauls_messages that pass the LIKE filter of scan_for_new_signals
\* and parse_signal.  Rows 1 and 2 carry the same raw text (the transport
\* delivers at least once); row 3 is a different text with a limit entry.
SignalRows ==
  { [insight_id |-> 1, raw_text |-> "A", timestamp |-> 1, symbol |-> "BTC/USDT",
     side |-> "buy", entry_type |-> "market", entry_price |-> 0,
     stop_loss |-> 900, take_profit |-> 1100],
    [insight_id |-> 2, raw_text |-> "A", timestamp |-> 2, symbol |-> "BTC/USDT",
     side |-> "buy", entry_type |-> "market", entry_price |-> 0,
     stop_loss |-> 900, take_profit |-> 1100],
    [insight_id |-> 3, raw_text |-> "B", timestamp |-> 3, symbol |-> "BTC/USDT",
     side |-> "buy", entry_type |-> "limit", entry_price |-> 1000,
     stop_loss |-> 900, take_profit |-> 1100] }

\* Signals whose levels lie on the wrong side for their direction (the copy
\* trader compares neither level with the entry or with the other): a long
\* with its stop above its target, a short with its stop below its target
CrossedSignalRows ==
  { [insight_id |-> 4, raw_text |-> "C", timestamp |-> 4, symbol |-> "BTC/USDT",
     side |-> "buy", entry_type |-> "market", entry_price |-> 0,
     stop_loss |-> 1100, take_profit |-> 1000],
    [insight_id |-> 5, raw_text |-> "D", timestamp |-> 5, symbol |-> "BTC/USDT",
     side |-> "sell", entry_type |-> "market", entry_price |-> 0,
     stop_loss |-> 900, take_profit |-> 1000] }

\* a signal on a second symbol
EthSignalRows ==
  { [insight_id |-> 6, raw_text |-> "E", timestamp |-> 6, symbol |-> "ETH/USDT",
     side |-> "buy", entry_type |-> "market", entry_price |-> 0,
     stop_loss |-> 900, take_profit |-> 1100] }

\* A signal dict without a stop-loss ('stop_loss': None, written 0).
\* parse_signal returns no such dict, so it reaches execute_gauls_signal only
\* from a caller that builds the dict itself.
StoplessSignals ==
  { [insight_id |-> 7, raw_text |-> "F", timestamp |-> 7, symbol |-> "BTC/USDT",
     side |-> "buy", entry_type |-> "market", entry_price |-> 0,
     stop_loss |-> 0, take_profit |-> 1100] }

\* market signals whose stop lies 1.1% from the price of 100.0: a long, and a
\* short (a dict with side 'sell'; parse_signal returns longs only)
TightStopSignals ==
  { [insight_id |-> 8, raw_text |-> "G", timestamp |-> 8, symbol |-> "BTC/USDT",
     side |-> "buy", entry_type |-> "market", entry_price |-> 0,
     stop_loss |-> 989, take_profit |-> 1100],
    [insight_id |-> 10, raw_text |-> "I", timestamp |-> 10, symbol |-> "BTC/USDT",
     side |-> "sell", entry_type |-> "market", entry_price |-> 0,
     stop_loss |-> 1011, take_profit |-> 900] }

\* A signal dict with two take-profit levels ('take_profits': [110, 120]).
\* parse_signal returns one level, so such a dict comes from a caller that
\* builds it itself.
TwoTargetSignals ==
  { [insight_id |-> 9, raw_text |-> "H", timestamp |-> 9, symbol |-> "BTC/USDT",
     side |-> "buy", entry_type |-> "market", entry_price |-> 0,
     stop_loss |-> 900, take_profit |-> 1100, take_profits |-> <<1100, 1200>>] }

RawTexts ==
  {r.raw_text : r \in SignalRows \cup CrossedSignalRows \cup EthSignalRows
                        \cup StoplessSignals \cup TightStopSignals
                        \cup TwoTargetSignals}
    \cup {"A$", "B", "DownTo", "Twice", "Update", "NoStop"}

\* hashlib.md5(raw_text).hexdigest(): a function of the text alone
Md5(text) == <<"md5", text>>

\* rows ORDER BY timestamp DESC
RECURSIVE SortDesc(_)
SortDesc(S) ==
  IF S = {} THEN <<>>
  ELSE LET m == CHOOSE r \in S : \A q \in S : q.timestamp <= r.timestamp
       IN <<m>> \o SortDesc(S \ {m})

\* ------------------------------------------------------ the update archive
\* Rows of all_gauls_messages that pass the LIKE filter of scan_for_updates,
\* each given by what the patterns of the update processor and of
\* _parse_trade_update find in its text:
\*   1  "$BTC TRADE UPDATE: 1.2R locked"
\*   2  "$BTC UPDATE: book 70% here"
\*   3  "$BTC TRADE UPDATE: trade is risk free, move your stop to entry"
UpdateRows ==
  { [update_id |-> 1, timestamp |-> 1, lines |-> <<"BTC/USDT">>, r_lines |-> <<"none">>,
     r_action |-> 12, book_partial |-> 0, risk_free |-> FALSE, both_all |-> FALSE,
     let_cook |-> FALSE, full_exit |-> FALSE,
     trade_update |-> TRUE, trader_action |-> "none"],
    [update_id |-> 2, timestamp |-> 2, lines |-> <<"BTC/USDT">>, r_lines |-> <<"none">>,
     r_action |-> 0, book_partial |-> 70, risk_free |-> FALSE, both_all |-> FALSE,
     let_cook |-> FALSE, full_exit |-> FALSE,
     trade_update |-> FALSE, trader_action |-> "none"],
    [update_id |-> 3, timestamp |-> 3, lines |-> <<"BTC/USDT">>, r_lines |-> <<"none">>,
     r_action |-> 0, book_partial |-> 0, risk_free |-> TRUE, both_all |-> FALSE,
     let_cook |-> FALSE, full_exit |-> FALSE,
     trade_update |-> TRUE, trader_action |-> "move_to_breakeven"] }

\* Further rows that pass the LIKE filter of scan_for_updates:
\*   4  "$BTC TRADE UPDATE: target hit, closing here"
\*      (the full_exit pattern; 'target hit' is close_position to the copy trader)
FullExitRows ==
  { [update_id |-> 4, timestamp |-> 4, lines |-> <<"BTC/USDT">>, r_lines |-> <<"none">>,
     r_action |-> 0, book_partial |-> 0, risk_free |-> FALSE, both_all |-> FALSE,
     let_cook |-> FALSE, full_exit |-> TRUE,
     trade_update |-> TRUE, trader_action |-> "close_position"] }

\* The generic instruction of Scenario D.  Its text has no symbol line and no
\* "$SYMBOL", so process_update_message falls back to the first word that is
\* followed by UPDATE, TRADE or a colon (case ignored) and takes it as the
\* symbol: "both" in the bare text (before " trades"), which the LIKE filter
\* of scan_for_updates does not select, and the header word in
\*   5  "UPDATE: both trades risk-free, letting targets cook"
\* Row 6 is the same instruction under one symbol line per position:
\*   6  "UPDATE" / "- $BTC - 1R running" / "- $ETH - 1R running" /
\*      "both trades risk-free, letting targets cook"
ScenarioDRows ==
  { [update_id |-> 5, timestamp |-> 5, lines |-> <<"UPDATE/USDT">>, r_lines |-> <<"none">>,
     r_action |-> 0, book_partial |-> 0, risk_free |-> TRUE, both_all |-> TRUE,
     let_cook |-> TRUE, full_exit |-> FALSE,
     trade_update |-> FALSE, trader_action |-> "none"],
    [update_id |-> 6, timestamp |-> 6, lines |-> <<"BTC/USDT", "ETH/USDT">>, r_lines |-> <<"running", "running">>,
     r_action |-> 0, book_partial |-> 0, risk_free |-> TRUE, both_all |-> TRUE,
     let_cook |-> TRUE, full_exit |-> FALSE,
     trade_update |-> FALSE, trader_action |-> "none"] }

\* A multi-target message: one symbol line with an action mention and one
\* with an informational mention
\*   7  "UPDATE" / "- $BTC - 1.2R locked" / "- $ETH - 0.8R running"
MultiTargetRows ==
  { [update_id |-> 7, timestamp |-> 7, lines |-> <<"BTC/USDT", "ETH/USDT">>,
     r_lines |-> <<"locked", "running">>,
     r_action |-> 12, book_partial |-> 0, risk_free |-> FALSE, both_all |-> FALSE,
     let_cook |-> FALSE, full_exit |-> FALSE,
     trade_update |-> FALSE, trader_action |-> "none"] }

\* An action mention beside a hold instruction
\*   8  "$BTC UPDATE: 1.2R locked, let the targets cook"
LetCookRows ==
  { [update_id |-> 8, timestamp |-> 8, lines |-> <<"BTC/USDT">>,
     r_lines |-> <<"none">>,
     r_action |-> 12, book_partial |-> 0, risk_free |-> FALSE, both_all |-> FALSE,
     let_cook |-> TRUE, full_exit |-> FALSE,
     trade_update |-> FALSE, trader_action |-> "none"] }

\* update_patterns['full_exit'] on the word of an R mention: of 'locked',
\* 'done', 'reached', 'secured' and 'taken' only 'done' has one of its
\* alternatives (close here, closing here, exit, out, done)
FullExitFinds(word) == word = "done"

\* A message that is an R mention and nothing else, by what the patterns
\* find in "$BTC TRADE UPDATE: <r>R <word>" (r in tenths)
MentionRow(update_id, r_value, word) ==
  [update_id |-> update_id, timestamp |-> update_id, lines |-> <<"BTC/USDT">>,
   r_lines |-> <<"none">>, r_action |-> r_value, book_partial |-> 0,
   risk_free |-> FALSE, both_all |-> FALSE, let_cook |-> FALSE,
   full_exit |-> FullExitFinds(word), trade_update |-> FALSE, trader_action |-> "none"]

\*   9  "$BTC TRADE UPDATE: 0.5R locked"    10  "$BTC TRADE UPDATE: 0.5R done"
\*  11  "$BTC TRADE UPDATE: 1.5R done"      12  "$BTC TRADE UPDATE: 2.5R secured"
MentionRows ==
  { MentionRow(9, 5, "locked"), MentionRow(10, 5, "done"),
    MentionRow(11, 15, "done"), MentionRow(12, 25, "secured") }

UpdateIds ==
  {u.update_id : u \in UpdateRows \cup FullExitRows \cup ScenarioDRows
                        \cup MultiTargetRows \cup LetCookRows \cup MentionRows}

\* what an exit order is sent for: a take-profit level or the stop of the
\* exit monitor, or an update message of the update processor
Causes == {<<"tp", 1>>, <<"tp", 2>>, <<"stop", 0>>} \cup {<<"update", u>> : u \in UpdateIds}

\* create_order: one more order sent for the cause; the exchange answers
\* with an order or, on any error, with status 'failed'
RecordOrder(log, trade_id, cause, order_ok) ==
  [log EXCEPT ![trade_id][cause] =
     [sent |-> @.sent + 1, failed |-> IF order_ok THEN @.failed ELSE @.failed + 1]]

\* hash(f"{message_text}_{timestamp}"): Python salts str hashes per process
\* unless PYTHONHASHSEED is fixed, so the value depends on the process seed
HashSeeds == {0, 1}
PyHash(seed, message) == <<"int", seed, message.update_id>>
\* str(message_hash), the TEXT stored in and loaded from processed_gauls_updates
PyStr(h) == <<"str", h[2], h[3]>>

\* ------------------------------------------------------------- the ledger
NoTrade ==
  [status |-> "none", symbol |-> "", side |-> "", entry_price |-> 0,
   recent |-> FALSE, quantity |-> 0, original_quantity |-> Null,
   remaining_quantity |-> 0, stop_loss |-> 0, take_profit_1 |-> 0,
   take_profit_2 |-> 0, partial_exits_done |-> 0, partial_pnl |-> 0,
   pnl |-> Null, exit_price |-> Null, notes |-> "", src |-> ""]

\* a row of the trades table as gauls_partial_executor.py reads and writes it
\* (partial_1_qty, partial_2_qty and remaining_qty are its columns; notes is
\* kept as the set of remarks appended to the column)
NoExecutorTrade ==
  [status |-> "none", symbol |-> "", side |-> "", entry_price |-> 0, stop_loss |-> 0,
   quantity |-> 0, partial_1_qty |-> Null, partial_2_qty |-> Null,
   remaining_qty |-> Null, notes |-> {}]

\* the percentages process_gauls_signal passes to execute_partial_close
PartialPercents == {40, 30}

VARIABLES
  gauls_messages,            \* signal rows delivered to the archive
  trades,                    \* trades table: TradeIds -> row
  partial_exits,             \* partial_exits table, in insertion order
  processed_gauls_signals,   \* processed-signal markers
  entry_orders,              \* exchange: entry order attempts per raw text
  exit_orders,               \* exchange: exit order attempts per trade
  exit_log,                  \* exchange: exit orders sent and answered 'failed', per trade and cause
  tpc, tsig, positions,      \* copy trader: position in the loop, signals left, in-memory map
  last_result,               \* copy trader: outcome of the last execute_gauls_signal call
  cooldown_skipped,          \* copy trader: signals a 'Cooldown active' skip was logged for
  trestarts,                 \* restarts of the copy trader so far
  mpc, mq, mloc,             \* exit monitor: position in the loop, trades left, locals
  all_gauls_messages,        \* update rows delivered to the archive
  processed_gauls_updates,   \* processed-update markers (message_hash TEXT)
  trade_updates,             \* trade_updates table: rows per update message
  sqlite_update_limit,       \* the SQLite build accepts UPDATE ... ORDER BY ... LIMIT
  signal_timestamp_column,   \* processed_gauls_signals has the columns the copy trader names
  tupd,                      \* copy trader: trade updates left in the cycle
  upc, uq, ul, ut, uact,     \* update processor: position, messages, lines, trades left, action
  processed_updates,         \* update processor: in-memory set of processed hashes
  useed, urestarts,          \* update processor: hash seed of the process, restarts so far
  applied, applied_ever,     \* update processor: execute_action successes per message and
                             \* trade, since the process started / since the beginning
  raw_telegram_messages,     \* partial executor: rows of raw_telegram_messages, oldest first
  executor_trades,           \* partial executor: its own trades table, TradeIds -> row
  contracts,                 \* exchange: size of the futures position the executor reads
  reduce_orders,             \* exchange: reduce-only partial orders placed, per trade and percent
  processed_messages,        \* update monitor: in-memory set of handled message ids
  xpc, xq                    \* update monitor: position in check_for_updates, messages left

archiveVars == <<gauls_messages, all_gauls_messages, sqlite_update_limit,
                 signal_timestamp_column>>
ledgerVars == <<trades, partial_exits>>
exchangeVars == <<exit_orders, exit_log>>
signalVars == <<processed_gauls_signals, entry_orders>>
updaterVars == <<upc, uq, ul, ut, uact, processed_updates, useed, urestarts,
                 applied, applied_ever, processed_gauls_updates>>
traderVars == <<tpc, tsig, positions, last_result, cooldown_skipped, trestarts, tupd, trade_updates>>
monitorVars == <<mpc, mq, mloc>>
executorVars == <<raw_telegram_messages, executor_trades, contracts, reduce_orders,
                  processed_messages, xpc, xq>>
vars == <<executorVars, gauls_messages, trades, partial_exits, processed_gauls_signals,
          entry_orders, exit_orders, exit_log, tpc, tsig, positions, last_result, cooldown_skipped, trestarts,
          mpc, mq, mloc, all_gauls_messages, processed_gauls_updates, trade_updates,
          sqlite_update_limit, signal_timestamp_column, tupd, upc, uq, ul, ut, uact, processed_updates,
          useed, urestarts, applied, applied_ever>>

\* the state after the services are constructed on an empty ledger
InitWith(update_limit_builds, marker_schemas) ==
  /\ gauls_messages = {}
  /\ trades = [t \in TradeIds |-> NoTrade]
  /\ partial_exits = <<>>
  /\ processed_gauls_signals = {}
  /\ entry_orders = [x \in RawTexts |-> 0]
  /\ exit_orders = [t \in TradeIds |-> 0]
  /\ exit_log = [t \in TradeIds |-> [c \in Causes |-> [sent |-> 0, failed |-> 0]]]
  /\ tpc = [p \in Pollers |-> "idle"]
  /\ tsig = [p \in Pollers |-> <<>>]
  /\ positions = [p \in Pollers |-> <<>>]
  /\ last_result = [p \in Pollers |-> <<>>]
  /\ cooldown_skipped = {}
  /\ trestarts = 0
  /\ mpc = "idle"
  /\ mq = <<>>
  /\ mloc = <<>>
  /\ all_gauls_messages = {}
  /\ processed_gauls_updates = {}
  /\ trade_updates = [u \in UpdateIds |-> 0]
  /\ sqlite_update_limit \in update_limit_builds
  /\ signal_timestamp_column \in marker_schemas
  /\ tupd = [p \in Pollers |-> <<>>]
  /\ upc = "idle"
  /\ uq = <<>>
  /\ ul = <<>>
  /\ ut = <<>>
  /\ uact = <<>>
  /\ processed_updates = {}
  /\ useed = 0
  /\ urestarts = 0
  /\ applied = [u \in UpdateIds |-> [t \in TradeIds |-> 0]]
  /\ applied_ever = [u \in UpdateIds |-> [t \in TradeIds |-> 0]]
  /\ raw_telegram_messages = <<>>
  /\ executor_trades = [t \in TradeIds |-> NoExecutorTrade]
  /\ contracts = 0
  /\ reduce_orders = [t \in TradeIds |-> [pc \in PartialPercents |-> 0]]
  /\ processed_messages = {}
  /\ xpc = "idle"
  /\ xq = <<>>

Init == InitWith(BOOLEAN, {TRUE})
InitNoUpdates == InitWith({TRUE}, {TRUE})
\* the marker table as the copy trader names it, or as ensure_db_consistency.py
\* creates it (no signal_id, signal_timestamp, raw_text, trade_ids columns)
InitSignal == InitWith({TRUE}, BOOLEAN)

\* ============================================================ copy trader
\* _is_signal_already_processed: md5 of the raw text, or symbol + timestamp
IsSignalAlreadyProcessed(markers, signal, columns) ==
  /\ columns      \* else the SELECT raises and the except returns False
  /\ \E m \in markers :
        \/ m.signal_hash = Md5(signal.raw_text)
        \/ (m.symbol = signal.symbol /\ m.signal_timestamp = signal.timestamp)

\* _record_processed_signal: INSERT OR IGNORE, signal_hash is UNIQUE
RecordProcessedSignal(markers, signal, columns) ==
  IF ~columns THEN markers      \* the INSERT raises, the except logs it
  ELSE IF \E m \in markers : m.signal_hash = Md5(signal.raw_text) THEN markers
  ELSE markers \cup { [signal_hash |-> Md5(signal.raw_text),
                       symbol |-> signal.symbol,
                       signal_timestamp |-> signal.timestamp] }

\* _has_recent_trade: an open gauls_copy trade on the symbol entered within
\* the cooldown (the row's recent flag is cleared when 5 minutes have passed)
HasRecentTrade(tr, symbol) ==
  \E t \in TradeIds :
     tr[t].symbol = symbol /\ tr[t].recent /\ tr[t].status = "open"

SignalKey(signal) == <<signal.symbol, signal.insight_id>>
HasPosition(pos, key) == \E i \in 1..Len(pos) : pos[i].key = key

\* dict assignment: an existing key keeps its place, a new key is appended
PutPosition(pos, entry) ==
  IF HasPosition(pos, entry.key)
  THEN [i \in 1..Len(pos) |-> IF pos[i].key = entry.key THEN entry ELSE pos[i]]
  ELSE Append(pos, entry)

UsedIds(tr) == {t \in TradeIds : tr[t].status # "none"}
HasFreeId(tr) == UsedIds(tr) # TradeIds
NextId(tr) == Cardinality(UsedIds(tr)) + 1

\* The smart entry logic of execute_gauls_signal: order type and execution price
IsLimitOrder(signal, current_price) ==
  /\ signal.entry_type = "limit"
  /\ Abs(current_price - signal.entry_price) * 100 > signal.entry_price
  /\ signal.side = "buy"
  /\ current_price > signal.entry_price

ExecutionPrice(signal, current_price) ==
  IF IsLimitOrder(signal, current_price) THEN signal.entry_price ELSE current_price

\* a distance to the stop that is never zero
RiskPerUnitNeverZero(execution_price, stop_loss) ==
  Abs(execution_price - stop_loss) + 100

\* Fixed-risk position sizing with the margin scale-down path
RiskPerUnit(execution_price, stop_loss) == Abs(execution_price - stop_loss)

MaxUnits(execution_price, stop_loss) ==
  (MAX_LOSS_PER_TRADE_EUR * PriceScale * QtyScale)
     \div RiskPerUnit(execution_price, stop_loss)

MarginRequired(execution_price, stop_loss) ==
  (MaxUnits(execution_price, stop_loss) * execution_price) \div GAULS_LEVERAGE

SizedQuantity(execution_price, stop_loss, available) ==
  IF MarginRequired(execution_price, stop_loss) > Money(available)
  THEN (((Money(available) * MARGIN_USAGE_PCT) \div 100) * GAULS_LEVERAGE)
          \div execution_price
  ELSE MaxUnits(execution_price, stop_loss)

\* UnifiedExchange.create_order: the notional safety cap on the amount
CappedAmount(amount, last) ==
  IF amount * last > Money(safety_limit)
  THEN Money(safety_limit) \div last
  ELSE amount

\* signal.get('take_profits', [])
TakeProfits(signal) ==
  IF "take_profits" \in DOMAIN signal THEN signal.take_profits ELSE <<>>

\* _record_gauls_trade: the row inserted for an executed signal; tp1 and tp2
\* come from the take_profits list when the dict has one
NewTradeRow(signal, amount, entry_price, status) ==
  [status |-> status, symbol |-> signal.symbol, side |-> signal.side,
   entry_price |-> entry_price, recent |-> TRUE, quantity |-> amount,
   original_quantity |-> Null, remaining_quantity |-> amount,
   stop_loss |-> signal.stop_loss,
   take_profit_1 |-> IF TakeProfits(signal) = <<>> THEN signal.take_profit
                     ELSE TakeProfits(signal)[1],
   take_profit_2 |-> IF Len(TakeProfits(signal)) > 1 THEN TakeProfits(signal)[2] ELSE 0,
   partial_exits_done |-> 0, partial_pnl |-> 0,
   pnl |-> Null, exit_price |-> Null,
   notes |-> "Gauls Copy Trade", src |-> signal.raw_text]

\* scan_for_new_signals at the top of a trading_loop cycle
TraderScanSignals(p) ==
  /\ tpc[p] = "idle"
  /\ tsig' = [tsig EXCEPT ![p] = SortDesc(gauls_messages)]
  /\ tpc' = [tpc EXCEPT ![p] = "signals"]
  /\ UNCHANGED <<executorVars, archiveVars, ledgerVars, signalVars, exchangeVars, monitorVars, updaterVars,
                 positions, last_result, cooldown_skipped, trestarts, tupd, trade_updates>>

\* execute_gauls_signal called with one signal dict by a caller other than
\* the trading loop
TraderCall(p, signal) ==
  /\ tpc[p] = "idle"
  /\ tsig' = [tsig EXCEPT ![p] = <<signal>>]
  /\ tpc' = [tpc EXCEPT ![p] = "signals"]
  /\ UNCHANGED <<executorVars, archiveVars, ledgerVars, signalVars, exchangeVars, monitorVars, updaterVars,
                 positions, last_result, cooldown_skipped, trestarts, tupd, trade_updates>>

\* execute_gauls_signal up to the three duplicate gates
TraderSignal(p) ==
  /\ tpc[p] = "signals"
  /\ tsig[p] # <<>>
  /\ LET signal == Head(tsig[p]) IN
       IF IsSignalAlreadyProcessed(processed_gauls_signals, signal,
                                   signal_timestamp_column) THEN
         /\ last_result' = [last_result EXCEPT ![p] = <<signal.insight_id, "processed">>]
         /\ tsig' = [tsig EXCEPT ![p] = Tail(tsig[p])]
         /\ UNCHANGED <<processed_gauls_signals, tpc, cooldown_skipped>>
       ELSE IF HasRecentTrade(trades, signal.symbol) THEN
         /\ last_result' = [last_result EXCEPT ![p] = <<signal.insight_id, "cooldown">>]
         /\ cooldown_skipped' = cooldown_skipped \cup {signal.insight_id}
         /\ tsig' = [tsig EXCEPT ![p] = Tail(tsig[p])]
         /\ UNCHANGED <<processed_gauls_signals, tpc>>
       ELSE IF HasPosition(positions[p], SignalKey(signal)) THEN
         /\ processed_gauls_signals' = RecordProcessedSignal(processed_gauls_signals, signal,
                                    signal_timestamp_column)
         /\ last_result' = [last_result EXCEPT ![p] = <<signal.insight_id, "have_position">>]
         /\ tsig' = [tsig EXCEPT ![p] = Tail(tsig[p])]
         /\ UNCHANGED <<tpc, cooldown_skipped>>
       ELSE
         /\ HasFreeId(trades)
         /\ tpc' = [tpc EXCEPT ![p] = "exec"]
         /\ UNCHANGED <<processed_gauls_signals, last_result, cooldown_skipped, tsig>>
  /\ UNCHANGED <<executorVars, archiveVars, ledgerVars, entry_orders, exchangeVars, monitorVars, updaterVars,
                 positions, trestarts, tupd, trade_updates>>

\* The analysis of a signal, as far as generate_execution_plan reads it
Proceed == [execution_recommendation |-> "proceed", position_sizing |-> "medium"]
Avoid == [execution_recommendation |-> "avoid", position_sizing |-> "medium"]

\* what the language model is taken to answer for a non-market signal
LlmAnalyses == {Proceed, Avoid}

\* _pattern_analyze_signal, the analysis without a language model: the
\* recommendation is always 'proceed'; the sizing follows the confidence the
\* wording gives ('medium' unless the text has one of the conviction words)
\* and the risk assessment the risk/reward ratio gives
pattern_analyze_signal(signal_confidence, risk_assessment) ==
  [execution_recommendation |-> "proceed",
   position_sizing |->
     IF signal_confidence = "very_high" /\ risk_assessment = "low" THEN "large"
     ELSE IF signal_confidence = "high" THEN "medium"
     ELSE "small"]

\* validate_against_market_conditions: 'cautious' when its own price source
\* shows the price more than 5% above the entry, else the analysis unchanged
\* (also when the price source cannot be imported)
validate_against_market_conditions(analysis, moved_up) ==
  IF moved_up THEN [analysis EXCEPT !.execution_recommendation = "cautious"]
  ELSE analysis

\* the analyses a copy trader without a language model can arrive at
FallbackAnalyses ==
  { validate_against_market_conditions(pattern_analyze_signal(c, r), m) :
      c \in {"medium", "high", "very_high"}, r \in {"low", "moderate"},
      m \in BOOLEAN }

\* generate_execution_plan; the modifier is in percent
generate_execution_plan(analysis) ==
  LET base == IF analysis.execution_recommendation = "cautious" THEN 50
              ELSE IF analysis.execution_recommendation = "aggressive" THEN 150
              ELSE 100
  IN [should_execute |-> analysis.execution_recommendation # "avoid",
      position_size_modifier |->
        IF analysis.position_sizing = "small" THEN base \div 2
        ELSE IF analysis.position_sizing = "large" THEN (base * 3) \div 2
        ELSE base]

\* execute_gauls_signal after the gates: enrichment, ticker, sizing, order,
\* _record_gauls_trade with its marker, and the in-memory positions entry.
\* A market signal skips the enrichment and runs the default plan.
TraderExec(p, analysis, ticker_ok, current_price, available, order_ok, last) ==
  /\ tpc[p] = "exec"
  /\ HasFreeId(trades)
  /\ LET signal == Head(tsig[p])
         execution_plan == IF signal.entry_type = "market"
                           THEN [should_execute |-> TRUE, position_size_modifier |-> 100]
                           ELSE generate_execution_plan(analysis)
         should_execute == execution_plan.should_execute
         execution_price == ExecutionPrice(signal, current_price)
         quantity == (SizedQuantity(execution_price, signal.stop_loss, available)
                        * execution_plan.position_size_modifier) \div 100
         amount == IF order_ok THEN CappedAmount(quantity, last) ELSE quantity
         order_status == IF IsLimitOrder(signal, current_price) THEN "pending" ELSE "open"
         outcome == IF signal.entry_type # "market" /\ ~should_execute THEN "llm_avoid"
                    ELSE IF ~ticker_ok THEN "ticker_error"
                    ELSE IF signal.stop_loss = 0 THEN "no_stop"
                    ELSE IF RiskPerUnit(execution_price, signal.stop_loss) = 0 THEN "zero_risk"
                    ELSE IF ~order_ok THEN "order_failed"
                    ELSE "executed"
     IN
       /\ last_result' = [last_result EXCEPT ![p] =
            IF outcome \in {"executed", "order_failed"}
            THEN <<signal.insight_id, outcome, available,
                   execution_plan.position_size_modifier>>
            ELSE <<signal.insight_id, outcome>>]
       /\ tsig' = [tsig EXCEPT ![p] = Tail(tsig[p])]
       /\ tpc' = [tpc EXCEPT ![p] = "signals"]
       /\ IF outcome \in {"executed", "order_failed"} THEN
            /\ entry_orders' = [entry_orders EXCEPT ![signal.raw_text] = @ + 1]
            /\ trades' = [trades EXCEPT ![NextId(trades)] =
                            NewTradeRow(signal, amount, execution_price, order_status)]
            /\ processed_gauls_signals' = RecordProcessedSignal(processed_gauls_signals, signal,
                                    signal_timestamp_column)
            /\ positions' = [positions EXCEPT ![p] =
                 PutPosition(positions[p],
                   [key |-> SignalKey(signal), symbol |-> signal.symbol,
                    entry_price |-> current_price])]
          ELSE UNCHANGED <<entry_orders, trades, processed_gauls_signals, positions>>
  /\ UNCHANGED <<executorVars, archiveVars, partial_exits, exchangeVars, monitorVars, updaterVars,
                 trestarts, tupd, trade_updates, cooldown_skipped>>

\* scan_for_trade_updates: the rows typed 'trade_update' that
\* _parse_trade_update accepts, newest first
RECURSIVE SortUpdatesDesc(_)
SortUpdatesDesc(S) ==
  IF S = {} THEN <<>>
  ELSE LET m == CHOOSE r \in S : \A q \in S : q.timestamp <= r.timestamp
       IN <<m>> \o SortUpdatesDesc(S \ {m})

TraderScanUpdates(p) ==
  /\ tpc[p] = "signals"
  /\ tsig[p] = <<>>
  /\ tupd' = [tupd EXCEPT ![p] =
                SortUpdatesDesc({u \in all_gauls_messages : u.trade_update})]
  /\ tpc' = [tpc EXCEPT ![p] = "updates"]
  /\ UNCHANGED <<executorVars, archiveVars, ledgerVars, signalVars, exchangeVars, monitorVars,
                 updaterVars, tsig, positions, last_result, cooldown_skipped, trestarts, trade_updates>>

\* the newest open gauls_copy row of a symbol (ORDER BY entry_time DESC LIMIT 1)
LatestOpen(tr, symbol) ==
  LET S == {t \in TradeIds : tr[t].status = "open" /\ tr[t].symbol = symbol}
  IN IF S = {} THEN 0 ELSE CHOOSE t \in S : \A q \in S : q <= t

\* _move_stop_to_breakeven: the first entry of the positions map on the symbol
\* gives the entry price, the UPDATE goes to the newest open row of the symbol
MoveStopToEntry(tr, pos, symbol, limit_ok) ==
  LET I == {i \in 1..Len(pos) : pos[i].symbol = symbol}
      t == LatestOpen(tr, symbol)
  IN IF I = {} \/ t = 0 \/ ~limit_ok THEN tr
     ELSE LET i == CHOOSE j \in I : \A k \in I : j <= k
          IN [tr EXCEPT ![t].stop_loss = pos[i].entry_price]

\* process_trade_update and _record_trade_update for the next update of the cycle
TraderUpdate(p) ==
  /\ tpc[p] = "updates"
  /\ tupd[p] # <<>>
  /\ LET update == Head(tupd[p]) IN
       /\ update.trader_action # "close_position"
       /\ trade_updates[update.update_id] < MaxUpdateRows
       /\ trades' = IF update.trader_action = "move_to_breakeven"
                    THEN MoveStopToEntry(trades, positions[p], update.lines[1],
                                         sqlite_update_limit)
                    ELSE trades
       /\ trade_updates' = [trade_updates EXCEPT ![update.update_id] = @ + 1]
  /\ tupd' = [tupd EXCEPT ![p] = Tail(tupd[p])]
  /\ UNCHANGED <<executorVars, archiveVars, partial_exits, signalVars, exchangeVars, monitorVars,
                 updaterVars, tpc, tsig, positions, last_result, cooldown_skipped, trestarts>>

\* _close_all_positions: the P&L it stores is the leveraged percentage move
\* of the price, whatever the side and the quantity (kept to 0.01 percent)
LeveragedPnlPct(entry_price, current_price) ==
  (((current_price - entry_price) * 100 * GAULS_LEVERAGE * 100) \div entry_price)
     * ((PriceScale * QtyScale) \div 100)

\* _close_all_positions: the row after its UPDATE (status, exit price, P&L; the
\* text appended to the notes is left out)
ClosedByTraderRow(row, current_price) ==
  [row EXCEPT !.status = "closed", !.exit_price = Some(current_price),
              !.pnl = Some(LeveragedPnlPct(row.entry_price, current_price))]

\* process_trade_update for a close_position update: _close_all_positions
\* closes every open row of the symbol in the ledger (no order is sent, the
\* in-memory positions are kept), then _record_trade_update; a ticker error
\* is logged and only the record is written
TraderClose(p, ticker_ok, current_price) ==
  /\ tpc[p] = "updates"
  /\ tupd[p] # <<>>
  /\ LET update == Head(tupd[p]) IN
       /\ update.trader_action = "close_position"
       /\ trade_updates[update.update_id] < MaxUpdateRows
       /\ trades' = IF ticker_ok
                    THEN [t \in TradeIds |->
                            IF trades[t].status = "open" /\ trades[t].symbol = update.lines[1]
                            THEN ClosedByTraderRow(trades[t], current_price)
                            ELSE trades[t]]
                    ELSE trades
       /\ trade_updates' = [trade_updates EXCEPT ![update.update_id] = @ + 1]
  /\ tupd' = [tupd EXCEPT ![p] = Tail(tupd[p])]
  /\ UNCHANGED <<executorVars, archiveVars, partial_exits, signalVars, exchangeVars, monitorVars,
                 updaterVars, tpc, tsig, positions, last_result, cooldown_skipped, trestarts>>

\* the rest of the cycle (check_gauls_exits matches no 'buy' position) and the sleep
TraderSleep(p) ==
  /\ tpc[p] = "updates"
  /\ tupd[p] = <<>>
  /\ tpc' = [tpc EXCEPT ![p] = "idle"]
  /\ UNCHANGED <<executorVars, archiveVars, ledgerVars, signalVars, exchangeVars, monitorVars, updaterVars,
                 tsig, positions, last_result, cooldown_skipped, trestarts, tupd, trade_updates>>

\* _load_existing_positions: the map rebuilt from the open rows, newest first
RECURSIVE LoadPositions(_, _)
LoadPositions(tr, t) ==
  IF t = 0 THEN <<>>
  ELSE IF tr[t].status = "open"
       THEN PutPosition(LoadPositions(tr, t - 1) ,
                        [key |-> <<tr[t].symbol, t>>, symbol |-> tr[t].symbol,
                         entry_price |-> tr[t].entry_price])
       ELSE LoadPositions(tr, t - 1)

\* the copy trader is stopped between two cycles and started again
TraderRestart(p) ==
  /\ tpc[p] = "idle"
  /\ trestarts < MaxRestarts
  /\ trestarts' = trestarts + 1
  /\ positions' = [positions EXCEPT ![p] = LoadPositions(trades, MaxTrades)]
  /\ last_result' = [last_result EXCEPT ![p] = <<>>]
  /\ UNCHANGED <<executorVars, archiveVars, ledgerVars, signalVars, exchangeVars, monitorVars, updaterVars,
                 tpc, tsig, tupd, trade_updates, cooldown_skipped>>

\* =========================================================== exit monitor
\* side-aware profit per unit, as execute_partial_exit and
\* close_remaining_position compute it
PnlPerUnit(side, entry_price, exit_price) ==
  IF side = "buy" THEN exit_price - entry_price ELSE entry_price - exit_price

\* UnifiedExchange.create_order catches every error of the real exchange and
\* returns a 'failed' order, so create_market_order raises for no outcome
OrderRaises(order_ok) == FALSE

\* get_open_trades: the open rows, oldest first, as the dicts of one cycle
RECURSIVE OpenTradeDicts(_, _)
OpenTradeDicts(tr, t) ==
  IF t > MaxTrades THEN <<>>
  ELSE IF tr[t].status = "open"
       THEN <<[id |-> t, side |-> tr[t].side, entry_price |-> tr[t].entry_price,
               stop_loss |-> tr[t].stop_loss,
               take_profit_1 |-> tr[t].take_profit_1,
               take_profit_2 |-> tr[t].take_profit_2,
               partial_exits_done |-> tr[t].partial_exits_done]>>
            \o OpenTradeDicts(tr, t + 1)
       ELSE OpenTradeDicts(tr, t + 1)

\* a check_exit_conditions that tests the take-profit levels before the stop
ExitDecisionTakeProfitFirst(trade, current_price) ==
  IF trade.side = "buy" THEN
    IF trade.partial_exits_done = 1 /\ trade.take_profit_2 # 0
       /\ current_price >= trade.take_profit_2 THEN
      [op |-> "partial", exit_percent |-> tp2_exit_percent, tp_level |-> 2,
       new_stop_loss |-> trade.take_profit_1]
    ELSE IF trade.partial_exits_done = 0 /\ trade.take_profit_1 # 0
            /\ current_price >= trade.take_profit_1 THEN
      [op |-> "partial", exit_percent |-> tp1_exit_percent, tp_level |-> 1,
       new_stop_loss |-> trade.entry_price]
    ELSE IF trade.stop_loss # 0 /\ current_price <= trade.stop_loss THEN
      [op |-> "close",
       reason |-> IF trade.stop_loss >= trade.entry_price
                  THEN "Breakeven Stop (Free Trade)" ELSE "Stop Loss Hit"]
    ELSE [op |-> "none"]
  ELSE
    IF trade.partial_exits_done = 1 /\ trade.take_profit_2 # 0
       /\ current_price <= trade.take_profit_2 THEN
      [op |-> "partial", exit_percent |-> tp2_exit_percent, tp_level |-> 2,
       new_stop_loss |-> trade.take_profit_1]
    ELSE IF trade.partial_exits_done = 0 /\ trade.take_profit_1 # 0
            /\ current_price <= trade.take_profit_1 THEN
      [op |-> "partial", exit_percent |-> tp1_exit_percent, tp_level |-> 1,
       new_stop_loss |-> trade.entry_price]
    ELSE IF trade.stop_loss # 0 /\ current_price >= trade.stop_loss THEN
      [op |-> "close",
       reason |-> IF trade.stop_loss <= trade.entry_price
                  THEN "Breakeven Stop (Free Trade)" ELSE "Stop Loss Hit"]
    ELSE [op |-> "none"]

\* a check_exit_conditions whose stop test is strict: a price exactly at the
\* stop does not close
ExitDecisionStrictStop(trade, current_price) ==
  IF trade.side = "buy" THEN
    IF trade.stop_loss # 0 /\ current_price < trade.stop_loss THEN
      [op |-> "close",
       reason |-> IF trade.stop_loss >= trade.entry_price
                  THEN "Breakeven Stop (Free Trade)" ELSE "Stop Loss Hit"]
    ELSE IF trade.partial_exits_done = 1 /\ trade.take_profit_2 # 0
            /\ current_price >= trade.take_profit_2 THEN
      [op |-> "partial", exit_percent |-> tp2_exit_percent, tp_level |-> 2,
       new_stop_loss |-> trade.take_profit_1]
    ELSE IF trade.partial_exits_done = 0 /\ trade.take_profit_1 # 0
            /\ current_price >= trade.take_profit_1 THEN
      [op |-> "partial", exit_percent |-> tp1_exit_percent, tp_level |-> 1,
       new_stop_loss |-> trade.entry_price]
    ELSE [op |-> "none"]
  ELSE
    IF trade.stop_loss # 0 /\ current_price > trade.stop_loss THEN
      [op |-> "close",
       reason |-> IF trade.stop_loss <= trade.entry_price
                  THEN "Breakeven Stop (Free Trade)" ELSE "Stop Loss Hit"]
    ELSE IF trade.partial_exits_done = 1 /\ trade.take_profit_2 # 0
            /\ current_price <= trade.take_profit_2 THEN
      [op |-> "partial", exit_percent |-> tp2_exit_percent, tp_level |-> 2,
       new_stop_loss |-> trade.take_profit_1]
    ELSE IF trade.partial_exits_done = 0 /\ trade.take_profit_1 # 0
            /\ current_price <= trade.take_profit_1 THEN
      [op |-> "partial", exit_percent |-> tp1_exit_percent, tp_level |-> 1,
       new_stop_loss |-> trade.entry_price]
    ELSE [op |-> "none"]

\* check_exit_conditions: which exit, if any, the price triggers for a trade
\* dict; the stop-loss test comes first, then TP2, then TP1
ExitDecision(trade, current_price) ==
  IF trade.side = "buy" THEN
    IF trade.stop_loss # 0 /\ current_price <= trade.stop_loss THEN
      [op |-> "close",
       reason |-> IF trade.stop_loss >= trade.entry_price
                  THEN "Breakeven Stop (Free Trade)" ELSE "Stop Loss Hit"]
    ELSE IF trade.partial_exits_done = 1 /\ trade.take_profit_2 # 0
            /\ current_price >= trade.take_profit_2 THEN
      [op |-> "partial", exit_percent |-> tp2_exit_percent, tp_level |-> 2,
       new_stop_loss |-> trade.take_profit_1]
    ELSE IF trade.partial_exits_done = 0 /\ trade.take_profit_1 # 0
            /\ current_price >= trade.take_profit_1 THEN
      [op |-> "partial", exit_percent |-> tp1_exit_percent, tp_level |-> 1,
       new_stop_loss |-> trade.entry_price]
    ELSE [op |-> "none"]
  ELSE
    IF trade.stop_loss # 0 /\ current_price >= trade.stop_loss THEN
      [op |-> "close",
       reason |-> IF trade.stop_loss <= trade.entry_price
                  THEN "Breakeven Stop (Free Trade)" ELSE "Stop Loss Hit"]
    ELSE IF trade.partial_exits_done = 1 /\ trade.take_profit_2 # 0
            /\ current_price <= trade.take_profit_2 THEN
      [op |-> "partial", exit_percent |-> tp2_exit_percent, tp_level |-> 2,
       new_stop_loss |-> trade.take_profit_1]
    ELSE IF trade.partial_exits_done = 0 /\ trade.take_profit_1 # 0
            /\ current_price <= trade.take_profit_1 THEN
      [op |-> "partial", exit_percent |-> tp1_exit_percent, tp_level |-> 1,
       new_stop_loss |-> trade.entry_price]
    ELSE [op |-> "none"]

\* execute_partial_exit, from its SELECT to the computed quantity and P&L
PartialExitLocals(row, trade_id, exit_price, d) ==
  LET orig_qty == OrElse(row.original_quantity, row.quantity)
      remaining_qty == OrElse(Some(row.remaining_quantity), row.quantity)
      exit_quantity == Min((orig_qty * d.exit_percent) \div 100, remaining_qty)
  IN [op |-> "partial", trade_id |-> trade_id, exit_price |-> exit_price,
      exit_percent |-> d.exit_percent, tp_level |-> d.tp_level,
      new_stop_loss |-> d.new_stop_loss, side |-> row.side,
      entry_price |-> row.entry_price, remaining_qty |-> remaining_qty,
      partial_exits |-> row.partial_exits_done, exit_quantity |-> exit_quantity,
      pnl |-> PnlPerUnit(row.side, row.entry_price, exit_price) * exit_quantity]

\* a close whose final-slice P&L is computed on the whole position
CloseLocalsOnWholeQuantity(row, trade_id, exit_price, d) ==
  LET final_pnl == PnlPerUnit(row.side, row.entry_price, exit_price) * row.quantity
  IN [op |-> "close", trade_id |-> trade_id, exit_price |-> exit_price,
      reason |-> d.reason, side |-> row.side, entry_price |-> row.entry_price,
      remaining_qty |-> row.remaining_quantity, partial_pnl |-> row.partial_pnl,
      final_pnl |-> final_pnl, total_pnl |-> row.partial_pnl + final_pnl]

\* close_remaining_position, from its SELECT to the computed total P&L
CloseLocals(row, trade_id, exit_price, d) ==
  LET final_pnl == PnlPerUnit(row.side, row.entry_price, exit_price)
                      * row.remaining_quantity
  IN [op |-> "close", trade_id |-> trade_id, exit_price |-> exit_price,
      reason |-> d.reason, side |-> row.side, entry_price |-> row.entry_price,
      remaining_qty |-> row.remaining_quantity, partial_pnl |-> row.partial_pnl,
      final_pnl |-> final_pnl, total_pnl |-> row.partial_pnl + final_pnl]

\* the note a failed exchange order leaves in the audit text
ErrorNote(order_ok) == IF OrderRaises(order_ok) THEN " - EXCHANGE ERROR" ELSE ""

\* the trades row as execute_partial_exit rewrites it
PartialExitRow(row, m) ==
  IF m.remaining_qty - m.exit_quantity <= ClosedEpsilon
  THEN [row EXCEPT !.status = "closed", !.exit_price = Some(m.exit_price),
                   !.remaining_quantity = 0,
                   !.partial_exits_done = m.partial_exits + 1,
                   !.partial_pnl = row.partial_pnl + m.pnl,
                   !.pnl = Some(row.partial_pnl + m.pnl),
                   !.notes = "Closed via partial exits"]
  ELSE [row EXCEPT !.stop_loss = m.new_stop_loss,
                   !.remaining_quantity = m.remaining_qty - m.exit_quantity,
                   !.partial_exits_done = m.partial_exits + 1,
                   !.partial_pnl = row.partial_pnl + m.pnl,
                   !.notes = IF (m.side = "buy" /\ m.new_stop_loss >= m.entry_price)
                                \/ (m.side = "sell" /\ m.new_stop_loss <= m.entry_price)
                             THEN "FREE TRADE - Stop at entry"
                             ELSE "TP hit - Stop moved"]

\* a close that writes the ledger only when the exchange filled the order
ClosedRowIfFilled(row, m, order_ok) ==
  IF order_ok
  THEN [row EXCEPT !.status = "closed", !.exit_price = Some(m.exit_price),
                   !.remaining_quantity = 0, !.pnl = Some(m.total_pnl),
                   !.notes = m.reason]
  ELSE row

\* the trades row as close_remaining_position rewrites it
ClosedRow(row, m, order_ok) ==
  [row EXCEPT !.status = "closed", !.exit_price = Some(m.exit_price),
              !.remaining_quantity = 0, !.pnl = Some(m.total_pnl),
              !.notes = IF OrderRaises(order_ok)
                        THEN "EXCHANGE ERROR" ELSE m.reason]

\* monitor_loop: a cycle starts with the list of open trades
MonitorBegin ==
  /\ mpc = "idle"
  /\ OpenTradeDicts(trades, 1) # <<>>
  /\ mq' = OpenTradeDicts(trades, 1)
  /\ mpc' = "check"
  /\ UNCHANGED <<executorVars, archiveVars, ledgerVars, signalVars, exchangeVars, traderVars, updaterVars, mloc>>

\* fetch_ticker and check_exit_conditions for the next trade of the cycle,
\* up to the SELECT of the exit it decides on
MonitorCheck(ticker_ok, current_price) ==
  /\ mpc = "check"
  /\ mq # <<>>
  /\ LET trade == Head(mq)
         d == ExitDecision(trade, current_price)
     IN IF ~ticker_ok \/ d.op = "none" THEN
          /\ mq' = Tail(mq)
          /\ UNCHANGED <<mpc, mloc>>
        ELSE
          /\ mloc' = IF d.op = "partial"
                     THEN PartialExitLocals(trades[trade.id], trade.id, current_price, d)
                     ELSE CloseLocals(trades[trade.id], trade.id, current_price, d)
          /\ mpc' = d.op
          /\ UNCHANGED mq
  /\ UNCHANGED <<executorVars, archiveVars, ledgerVars, signalVars, exchangeVars, traderVars, updaterVars>>

\* execute_partial_exit: the exchange order, the audit record and the UPDATE
MonitorPartialExit(order_ok) ==
  /\ mpc = "partial"
  /\ exit_orders' = [exit_orders EXCEPT ![mloc.trade_id] = @ + 1]
  /\ exit_log' = RecordOrder(exit_log, mloc.trade_id, <<"tp", mloc.tp_level>>, order_ok)
  /\ partial_exits' = Append(partial_exits,
       [trade_id |-> mloc.trade_id, exit_price |-> mloc.exit_price,
        quantity_exited |-> mloc.exit_quantity, pnl |-> mloc.pnl,
        tp_level |-> mloc.tp_level, new_stop_loss |-> Some(mloc.new_stop_loss),
        notes |-> IF OrderRaises(order_ok) THEN "EXCHANGE ERROR" ELSE "TP partial exit",
        by |-> 0])
  /\ trades' = [trades EXCEPT ![mloc.trade_id] = PartialExitRow(@, mloc)]
  /\ mq' = Tail(mq)
  /\ mloc' = <<>>
  /\ mpc' = "check"
  /\ UNCHANGED <<executorVars, archiveVars, signalVars, traderVars, updaterVars>>

\* close_remaining_position: the exchange order and the UPDATE
MonitorClose(order_ok) ==
  /\ mpc = "close"
  /\ exit_orders' = [exit_orders EXCEPT ![mloc.trade_id] = @ + 1]
  /\ exit_log' = RecordOrder(exit_log, mloc.trade_id, <<"stop", 0>>, order_ok)
  /\ trades' = [trades EXCEPT ![mloc.trade_id] = ClosedRow(@, mloc, order_ok)]
  /\ mq' = Tail(mq)
  /\ mloc' = <<>>
  /\ mpc' = "check"
  /\ UNCHANGED <<executorVars, archiveVars, partial_exits, signalVars, traderVars, updaterVars>>

\* execute_partial_exit when the INSERT or the UPDATE raises (sqlite3 gives up
\* on a database another service keeps locked): the order has been sent, the
\* except branch logs the error and rolls the transaction back
MonitorPartialExitRollback(order_ok) ==
  /\ mpc = "partial"
  /\ exit_orders[mloc.trade_id] < MaxExitOrders
  /\ exit_orders' = [exit_orders EXCEPT ![mloc.trade_id] = @ + 1]
  /\ exit_log' = RecordOrder(exit_log, mloc.trade_id, <<"tp", mloc.tp_level>>, order_ok)
  /\ mq' = Tail(mq)
  /\ mloc' = <<>>
  /\ mpc' = "check"
  /\ UNCHANGED <<executorVars, archiveVars, ledgerVars, signalVars, traderVars, updaterVars>>

\* close_remaining_position when the UPDATE raises after the order was sent
MonitorCloseRollback(order_ok) ==
  /\ mpc = "close"
  /\ exit_orders[mloc.trade_id] < MaxExitOrders
  /\ exit_orders' = [exit_orders EXCEPT ![mloc.trade_id] = @ + 1]
  /\ exit_log' = RecordOrder(exit_log, mloc.trade_id, <<"stop", 0>>, order_ok)
  /\ mq' = Tail(mq)
  /\ mloc' = <<>>
  /\ mpc' = "check"
  /\ UNCHANGED <<executorVars, archiveVars, ledgerVars, signalVars, traderVars, updaterVars>>

\* the cycle is over: sleep check_interval seconds
MonitorSleep ==
  /\ mpc = "check"
  /\ mq = <<>>
  /\ mpc' = "idle"
  /\ UNCHANGED <<executorVars, archiveVars, ledgerVars, signalVars, exchangeVars, traderVars, updaterVars, mq, mloc>>

\* ======================================================= update processor
NoAction == [type |-> "none", partial_percent |-> 0, move_sl |-> FALSE]

\* determine_action: the first pattern that applies, in the order of the code;
\* R values are in tenths
determine_action(message) ==
  IF message.r_action >= 10 /\ message.r_action < 20 THEN
    [type |-> "1R_partial", partial_percent |-> 40, move_sl |-> TRUE]
  ELSE IF message.r_action >= 20 THEN
    [type |-> "2R_partial", partial_percent |-> 30, move_sl |-> FALSE]
  ELSE IF message.book_partial # 0 THEN
    [type |-> "book_partial", partial_percent |-> message.book_partial, move_sl |-> FALSE]
  ELSE IF message.risk_free THEN
    [type |-> "make_risk_free", partial_percent |-> 0, move_sl |-> TRUE]
  ELSE IF message.full_exit THEN
    [type |-> "full_exit", partial_percent |-> 100, move_sl |-> FALSE]
  ELSE NoAction

\* extract_symbol_updates: the symbol_data of each symbol line, in the order
\* of the lines: the mention found on the line itself ("none" for a symbol
\* taken by the fallback of process_update_message)
extract_symbol_updates(message) ==
  [i \in 1..Len(message.lines) |->
     [symbol |-> message.lines[i], r_action |-> message.r_lines[i]]]

\* extract_generic_instructions and determine_action_enhanced; the latter
\* receives the symbol_data of the line and does not read it
determine_action_enhanced(message) ==
  IF message.risk_free /\ message.both_all
  THEN [type |-> "risk_free_generic", partial_percent |-> 0, move_sl |-> TRUE]
  ELSE determine_action(message)

\* get_matching_trades: the open gauls_copy rows of a symbol as dicts
RECURSIVE MatchingTrades(_, _, _)
MatchingTrades(tr, symbol, t) ==
  IF t > MaxTrades THEN <<>>
  ELSE IF tr[t].status = "open" /\ tr[t].symbol = symbol
       THEN <<[id |-> t, side |-> tr[t].side, entry_price |-> tr[t].entry_price,
               remaining_quantity |->
                  OrElse(Some(tr[t].remaining_quantity), tr[t].quantity)]>>
            \o MatchingTrades(tr, symbol, t + 1)
       ELSE MatchingTrades(tr, symbol, t + 1)

\* execute_action: the quantity of the partial close
PartialQty(trade, action) == (trade.remaining_quantity * action.partial_percent) \div 100

\* the tp_level update_trade_partial records: 1 if '1' occurs in the action type
ActionTpLevel(type) == IF type = "1R_partial" THEN 1 ELSE 2

\* update_trade_partial: the trades row after the in-place UPDATE
UpdatedPartialRow(row, partial_qty, exit_price) ==
  [row EXCEPT !.remaining_quantity = row.remaining_quantity - partial_qty,
              !.partial_exits_done = row.partial_exits_done + 1,
              !.partial_pnl = row.partial_pnl
                 + PnlPerUnit(row.side, row.entry_price, exit_price) * partial_qty]

\* close_trade: the trades row after the UPDATE of the update processor
ClosedByUpdateRow(row, exit_price) ==
  [row EXCEPT !.status = "closed", !.exit_price = Some(exit_price)]

\* move_stop_to_breakeven: entry price plus (long) or minus (short) 0.1% for fees
Breakeven(trade) ==
  (trade.entry_price *
     (IF trade.side = "buy" THEN BreakevenLongPermille ELSE BreakevenShortPermille))
  \div 1000

\* scan_for_updates: the messages of the last six hours, newest first
UpdScan ==
  /\ upc = "idle"
  /\ all_gauls_messages # {}
  /\ uq' = SortUpdatesDesc(all_gauls_messages)
  /\ upc' = "scan"
  /\ UNCHANGED <<executorVars, archiveVars, ledgerVars, signalVars, exchangeVars, traderVars, monitorVars,
                 ul, ut, uact, processed_updates, useed, urestarts, applied,
                 applied_ever, processed_gauls_updates>>

\* the duplicate test of scan_for_updates: message_hash not in processed_updates
IsProcessedUpdate(hashes, h) == h \in hashes

\* an update processor that keeps no in-memory record of a processed hash
MarkInMemoryForgets(hashes, h) == hashes

\* mark_as_processed: the in-memory set receives the hash itself
MarkInMemory(hashes, h) == hashes \cup {h}

\* the duplicate test of scan_for_updates on the next message of the cycle
UpdMessage ==
  /\ upc = "scan"
  /\ uq # <<>>
  /\ IF IsProcessedUpdate(processed_updates, PyHash(useed, Head(uq)))
     THEN /\ uq' = Tail(uq)
          /\ UNCHANGED <<upc, ul>>
     ELSE /\ ul' = Head(uq).lines
          /\ upc' = "lines"
          /\ UNCHANGED uq
  /\ UNCHANGED <<executorVars, archiveVars, ledgerVars, signalVars, exchangeVars, traderVars, monitorVars,
                 ut, uact, processed_updates, useed, urestarts, applied,
                 applied_ever, processed_gauls_updates>>

\* process_update_message: the next symbol of the message, its open trades
\* and the action determined for it
UpdLine ==
  /\ upc = "lines"
  /\ IF ul = <<>> THEN
       /\ uq' = Tail(uq)
       /\ upc' = "scan"
       /\ UNCHANGED <<ul, ut, uact>>
     ELSE LET found == MatchingTrades(trades, Head(ul), 1)
              action == determine_action_enhanced(Head(uq))
          IN IF found = <<>> \/ action.type = "none" THEN
               /\ ul' = Tail(ul)
               /\ UNCHANGED <<uq, upc, ut, uact>>
             ELSE
               /\ ut' = found
               /\ uact' = action
               /\ upc' = "trades"
               /\ UNCHANGED <<uq, ul>>
  /\ UNCHANGED <<executorVars, archiveVars, ledgerVars, signalVars, exchangeVars, traderVars, monitorVars,
                 processed_updates, useed, urestarts, applied, applied_ever,
                 processed_gauls_updates>>

\* the stop move of execute_action and the mark_as_processed that follows its success
FinishAction(trade, message) ==
  /\ trades' = IF uact.move_sl
               THEN [trades EXCEPT ![trade.id].stop_loss = Breakeven(trade)]
               ELSE trades
  /\ processed_gauls_updates' =
        processed_gauls_updates \cup {PyStr(PyHash(useed, message))}
  /\ processed_updates' = MarkInMemory(processed_updates, PyHash(useed, message))
  /\ applied' = [applied EXCEPT ![message.update_id][trade.id] = @ + 1]
  /\ applied_ever' = [applied_ever EXCEPT ![message.update_id][trade.id] = @ + 1]
  /\ ut' = Tail(ut)
  /\ upc' = IF Tail(ut) = <<>> THEN "lines" ELSE "trades"
  /\ ul' = IF Tail(ut) = <<>> THEN Tail(ul) ELSE ul

\* execute_action on the next trade dict: ticker, exchange order and
\* update_trade_partial or close_trade; an action without a partial goes
\* straight to the stop move
UpdExecute(ticker_ok, current_price, order_ok) ==
  /\ upc = "trades"
  /\ LET trade == Head(ut)
         partial_qty == PartialQty(trade, uact)
     IN IF partial_qty > 0 /\ ~ticker_ok THEN
          /\ ut' = Tail(ut)
          /\ upc' = IF Tail(ut) = <<>> THEN "lines" ELSE "trades"
          /\ ul' = IF Tail(ut) = <<>> THEN Tail(ul) ELSE ul
          /\ UNCHANGED <<ledgerVars, exchangeVars, processed_updates,
                         processed_gauls_updates, applied, applied_ever>>
        ELSE IF partial_qty > 0 THEN
          /\ exit_orders' = [exit_orders EXCEPT ![trade.id] = @ + 1]
          /\ exit_log' = RecordOrder(exit_log, trade.id,
                                     <<"update", Head(uq).update_id>>, order_ok)
          /\ IF uact.partial_percent < 100 THEN
               /\ partial_exits' = Append(partial_exits,
                    [trade_id |-> trade.id, exit_price |-> current_price,
                     quantity_exited |-> partial_qty,
                     pnl |-> PnlPerUnit(trades[trade.id].side,
                                        trades[trade.id].entry_price,
                                        current_price) * partial_qty,
                     tp_level |-> ActionTpLevel(uact.type), new_stop_loss |-> Null,
                     notes |-> <<"Gauls", uact.type>>, by |-> Head(uq).update_id])
               /\ trades' = [trades EXCEPT ![trade.id] =
                               UpdatedPartialRow(@, partial_qty, current_price)]
             ELSE
               /\ trades' = [trades EXCEPT ![trade.id] =
                               ClosedByUpdateRow(@, current_price)]
               /\ UNCHANGED partial_exits
          /\ upc' = "stop"
          /\ UNCHANGED <<ut, ul, processed_updates, processed_gauls_updates,
                         applied, applied_ever>>
        ELSE
          /\ FinishAction(trade, Head(uq))
          /\ UNCHANGED <<partial_exits, exchangeVars>>
  /\ UNCHANGED <<executorVars, archiveVars, signalVars, traderVars, monitorVars, uq, uact, useed,
                 urestarts>>

\* execute_action when update_trade_partial or close_trade raises after
\* create_order: nothing is committed, the except returns False and
\* process_update_message does not mark the message as processed
UpdExecuteWriteFails(current_price, order_ok) ==
  /\ upc = "trades"
  /\ PartialQty(Head(ut), uact) > 0
  /\ exit_orders[Head(ut).id] < MaxExitOrders
  /\ exit_orders' = [exit_orders EXCEPT ![Head(ut).id] = @ + 1]
  /\ exit_log' = RecordOrder(exit_log, Head(ut).id,
                             <<"update", Head(uq).update_id>>, order_ok)
  /\ ut' = Tail(ut)
  /\ upc' = IF Tail(ut) = <<>> THEN "lines" ELSE "trades"
  /\ ul' = IF Tail(ut) = <<>> THEN Tail(ul) ELSE ul
  /\ UNCHANGED <<executorVars, archiveVars, ledgerVars, signalVars, traderVars, monitorVars, uq, uact,
                 processed_updates, useed, urestarts, applied, applied_ever,
                 processed_gauls_updates>>

\* execute_action after the partial: stop move, return True, mark_as_processed
UpdFinish ==
  /\ upc = "stop"
  /\ FinishAction(Head(ut), Head(uq))
  /\ UNCHANGED <<executorVars, archiveVars, partial_exits, signalVars, exchangeVars, traderVars,
                 monitorVars, uq, uact, useed, urestarts>>

\* process_update_message when get_matching_trades raises (sqlite3 gives up
\* on a locked database): neither process_update_message nor scan_for_updates
\* catches it, so it ends the scan in the except branch of monitor_loop, which
\* logs it and sleeps 60 seconds
UpdMessageRaises ==
  /\ upc = "lines"
  /\ ul # <<>>
  /\ uq' = <<>>
  /\ ul' = <<>>
  /\ upc' = "idle"
  /\ UNCHANGED <<executorVars, archiveVars, ledgerVars, signalVars, exchangeVars, traderVars, monitorVars,
                 ut, uact, processed_updates, useed, urestarts, applied,
                 applied_ever, processed_gauls_updates>>

\* the cycle is over: sleep 60 seconds
UpdSleep ==
  /\ upc = "scan"
  /\ uq = <<>>
  /\ upc' = "idle"
  /\ UNCHANGED <<executorVars, archiveVars, ledgerVars, signalVars, exchangeVars, traderVars, monitorVars,
                 uq, ul, ut, uact, processed_updates, useed, urestarts, applied,
                 applied_ever, processed_gauls_updates>>

\* the update processor is stopped between two cycles and started again:
\* a new process with its own hash seed runs load_processed_updates
UpdRestart(seed) ==
  /\ upc = "idle"
  /\ urestarts < MaxRestarts
  /\ urestarts' = urestarts + 1
  /\ useed' = seed
  /\ processed_updates' = processed_gauls_updates
  /\ applied' = [u \in UpdateIds |-> [t \in TradeIds |-> 0]]
  /\ UNCHANGED <<executorVars, archiveVars, ledgerVars, signalVars, exchangeVars, traderVars, monitorVars,
                 upc, uq, ul, ut, uact, applied_ever, processed_gauls_updates>>

\* ============================================================ environment
\* the transport stores one more message in the signal archive
DeliverSignal(row) ==
  /\ row \notin gauls_messages
  /\ gauls_messages' = gauls_messages \cup {row}
  /\ UNCHANGED <<executorVars, all_gauls_messages, sqlite_update_limit, signal_timestamp_column, ledgerVars, signalVars,
                 exchangeVars, traderVars, monitorVars, updaterVars>>

\* the transport stores one more update message in the archive
DeliverUpdate(row) ==
  /\ row \notin all_gauls_messages
  /\ all_gauls_messages' = all_gauls_messages \cup {row}
  /\ UNCHANGED <<executorVars, gauls_messages, sqlite_update_limit, signal_timestamp_column, ledgerVars, signalVars,
                 exchangeVars, traderVars, monitorVars, updaterVars>>

\* five minutes pass since the entry of trade t
CooldownExpires(t) ==
  /\ trades[t].recent
  /\ trades' = [trades EXCEPT ![t].recent = FALSE]
  /\ UNCHANGED <<executorVars, archiveVars, partial_exits, signalVars, exchangeVars, traderVars,
                 monitorVars, updaterVars>>

\* ========================================================= specifications
EntryPrices == {900, 1000, 1110}
Availables == {5000}

\* signal ingestion by the one copy-trader service, with restarts
NextSignal ==
  \/ \E row \in SignalRows : DeliverSignal(row)
  \/ \E t \in TradeIds : CooldownExpires(t)
  \/ TraderScanSignals(1)
  \/ TraderSignal(1)
  \/ \E an \in LlmAnalyses, tok \in BOOLEAN, cp \in EntryPrices, av \in Availables,
        ok \in BOOLEAN, last \in EntryPrices :
        TraderExec(1, an, tok, cp, av, ok, last)
  \/ TraderScanUpdates(1)
  \/ TraderSleep(1)
  \/ TraderRestart(1)

SpecSignal == InitSignal /\ [][NextSignal]_vars

\* the price loop alone on the position of Scenario C (entry 100, stop 90, TP1 110)
ScenarioSignals == {r \in SignalRows : r.insight_id = 1}
ScenarioEntry == {1000}
ScenarioPrices == {890, 1000, 1110}

NextC ==
  \/ \E row \in ScenarioSignals : DeliverSignal(row)
  \/ \E t \in TradeIds : CooldownExpires(t)
  \/ TraderScanSignals(1)
  \/ TraderSignal(1)
  \/ \E tok \in BOOLEAN, cp \in ScenarioEntry, av \in Availables, ok \in BOOLEAN :
        TraderExec(1, Proceed, tok, cp, av, ok, cp)
  \/ TraderScanUpdates(1)
  \/ TraderSleep(1)
  \/ MonitorBegin
  \/ \E tok \in BOOLEAN, cp \in ScenarioPrices : MonitorCheck(tok, cp)
  \/ \E ok \in BOOLEAN : MonitorPartialExit(ok)
  \/ \E ok \in BOOLEAN : MonitorClose(ok)
  \/ MonitorSleep

SpecC == InitNoUpdates /\ [][NextC]_vars

\* the three services on one ledger: the copy trader opens the position of
\* signal row 1 and runs its own update path, the exit monitor polls prices,
\* the update processor applies update messages and may be restarted
LifecycleSignals == {r \in SignalRows : r.insight_id = 1}
LifecycleEntry == {1000}
Prices == {890, 1000, 1110}

TraderOpens ==
  \/ \E row \in LifecycleSignals : DeliverSignal(row)
  \/ TraderScanSignals(1)
  \/ TraderSignal(1)
  \/ \E cp \in LifecycleEntry, av \in Availables :
        TraderExec(1, Proceed, TRUE, cp, av, TRUE, cp)
  \/ TraderScanUpdates(1)
  \/ TraderSleep(1)

\* the answers of the exchange to an exit order: here every order is filled;
\* the services go on in the same way after a 'failed' answer (create_order
\* raises for none), and SpecX below follows the failed answers
Filled == {TRUE}

MonitorSteps ==
  \/ MonitorBegin
  \/ \E cp \in Prices : MonitorCheck(TRUE, cp)
  \/ \E ok \in Filled : MonitorPartialExit(ok)
  \/ \E ok \in Filled : MonitorClose(ok)
  \/ MonitorSleep

UpdaterSteps ==
  \/ \E row \in UpdateRows : DeliverUpdate(row)
  \/ UpdScan
  \/ UpdMessage
  \/ UpdLine
  \/ \E tok \in BOOLEAN, cp \in Prices, ok \in Filled : UpdExecute(tok, cp, ok)
  \/ UpdFinish
  \/ UpdSleep

Next == TraderOpens \/ MonitorSteps \/ UpdaterSteps

NextR == TraderOpens \/ UpdaterSteps \/ \E seed \in HashSeeds : UpdRestart(seed)
SpecR == InitNoUpdates /\ [][NextR]_vars

NextT == TraderOpens \/ TraderUpdate(1) \/ \E row \in UpdateRows : DeliverUpdate(row)
SpecT == Init /\ [][NextT]_vars

Spec == InitNoUpdates /\ [][Next]_vars

\* the three services with an exchange that may answer 'failed' to an exit
\* order; the update processor receives a partial and a full-exit instruction
Answers == BOOLEAN
FaultRows == {r \in UpdateRows : r.update_id = 2} \cup FullExitRows

NextX ==
  \/ TraderOpens
  \/ MonitorBegin
  \/ \E cp \in Prices : MonitorCheck(TRUE, cp)
  \/ \E ok \in Answers : MonitorPartialExit(ok)
  \/ \E ok \in Answers : MonitorClose(ok)
  \/ MonitorSleep
  \/ \E row \in FaultRows : DeliverUpdate(row)
  \/ UpdScan
  \/ UpdMessage
  \/ UpdLine
  \/ \E tok \in BOOLEAN, cp \in Prices, ok \in Answers : UpdExecute(tok, cp, ok)
  \/ UpdFinish
  \/ UpdMessageRaises
  \/ UpdSleep

SpecX == InitNoUpdates /\ [][NextX]_vars

\* the three services when a write to the ledger may fail after the order
\* was sent; the update processor receives the 1.2R instruction
WriteFaultRows == {r \in UpdateRows : r.update_id = 1}

NextW ==
  \/ TraderOpens
  \/ MonitorBegin
  \/ \E cp \in Prices : MonitorCheck(TRUE, cp)
  \/ \E ok \in Answers : MonitorPartialExit(ok)
  \/ \E ok \in Answers : MonitorPartialExitRollback(ok)
  \/ \E ok \in Answers : MonitorClose(ok)
  \/ \E ok \in Answers : MonitorCloseRollback(ok)
  \/ MonitorSleep
  \/ \E row \in WriteFaultRows : DeliverUpdate(row)
  \/ UpdScan
  \/ UpdMessage
  \/ UpdLine
  \/ \E tok \in BOOLEAN, cp \in Prices, ok \in Answers : UpdExecute(tok, cp, ok)
  \/ \E cp \in Prices, ok \in Answers : UpdExecuteWriteFails(cp, ok)
  \/ UpdFinish
  \/ UpdSleep

SpecW == InitNoUpdates /\ [][NextW]_vars

\* the price loop on positions whose stop and target can both be met by one
\* price, beside the position of signal row 1
PollSignals == LifecycleSignals \cup CrossedSignalRows

NextP ==
  \/ \E row \in PollSignals : DeliverSignal(row)
  \/ \E t \in TradeIds : CooldownExpires(t)
  \/ TraderScanSignals(1)
  \/ TraderSignal(1)
  \/ \E cp \in LifecycleEntry, av \in Availables :
        TraderExec(1, Proceed, TRUE, cp, av, TRUE, cp)
  \/ TraderScanUpdates(1)
  \/ TraderSleep(1)
  \/ MonitorBegin
  \/ \E tok \in BOOLEAN, cp \in Prices : MonitorCheck(tok, cp)
  \/ \E ok \in Answers : MonitorPartialExit(ok)
  \/ \E ok \in Answers : MonitorClose(ok)
  \/ MonitorSleep

SpecP == InitNoUpdates /\ [][NextP]_vars

\* every way a position is closed: the exit monitor on prices, the update
\* processor and the copy trader on a full-exit instruction
NextQ ==
  \/ TraderOpens
  \/ \E tok \in BOOLEAN, cp \in Prices : TraderClose(1, tok, cp)
  \/ MonitorSteps
  \/ \E row \in FullExitRows : DeliverUpdate(row)
  \/ UpdScan
  \/ UpdMessage
  \/ UpdLine
  \/ \E tok \in BOOLEAN, cp \in Prices, ok \in Filled : UpdExecute(tok, cp, ok)
  \/ UpdFinish
  \/ UpdSleep

SpecQ == InitNoUpdates /\ [][NextQ]_vars

\* Scenario D: the copy trader opens a position on each of two symbols; once
\* both are open the generic instruction arrives and the update processor
\* runs on it.  The multi-target message and the message with a hold
\* instruction arrive in the same situation.
ScenarioDSignals == LifecycleSignals \cup EthSignalRows
BothPositionsOpen ==
  \E t, u \in TradeIds :
     /\ trades[t].status = "open" /\ trades[u].status = "open"
     /\ trades[t].symbol # trades[u].symbol

\* the instruction reaches the archive while both positions are open
DeliverToBoth(row) == BothPositionsOpen /\ DeliverUpdate(row)

NextD ==
  \/ \E row \in ScenarioDSignals : DeliverSignal(row)
  \/ TraderScanSignals(1)
  \/ TraderSignal(1)
  \/ \E cp \in LifecycleEntry, av \in Availables :
        TraderExec(1, Proceed, TRUE, cp, av, TRUE, cp)
  \/ TraderScanUpdates(1)
  \/ TraderSleep(1)
  \/ \E row \in ScenarioDRows \cup MultiTargetRows \cup LetCookRows : DeliverToBoth(row)
  \/ UpdScan
  \/ UpdMessage
  \/ UpdLine
  \/ \E tok \in BOOLEAN, cp \in Prices, ok \in Filled : UpdExecute(tok, cp, ok)
  \/ UpdFinish
  \/ UpdSleep

SpecD == InitNoUpdates /\ [][NextD]_vars

\* two pollers of the signal archive on one ledger
NextPollers ==
  \/ \E row \in LifecycleSignals : DeliverSignal(row)
  \/ \E t \in TradeIds : CooldownExpires(t)
  \/ \E p \in Pollers :
       \/ TraderScanSignals(p)
       \/ TraderSignal(p)
       \/ \E tok \in BOOLEAN, cp \in EntryPrices, av \in Availables, ok \in BOOLEAN :
             TraderExec(p, Proceed, tok, cp, av, ok, cp)
       \/ TraderScanUpdates(p)
       \/ TraderSleep(p)

SpecPollers == InitNoUpdates /\ [][NextPollers]_vars

\* stop-loss validation: signals of the archive at prices that include their
\* stop, and a signal dict without a stop handed to execute_gauls_signal
ValidationSignals == {r \in SignalRows : r.insight_id \in {1, 3}}

NextV ==
  \/ \E row \in ValidationSignals : DeliverSignal(row)
  \/ \E t \in TradeIds : CooldownExpires(t)
  \/ \E p \in Pollers :
       \/ TraderScanSignals(p)
       \/ \E signal \in StoplessSignals : TraderCall(p, signal)
       \/ TraderSignal(p)
       \/ \E an \in LlmAnalyses, tok \in BOOLEAN, cp \in EntryPrices, av \in Availables,
             ok \in BOOLEAN :
             TraderExec(p, an, tok, cp, av, ok, cp)
       \/ TraderScanUpdates(p)
       \/ TraderSleep(p)

SpecV == InitNoUpdates /\ [][NextV]_vars

\* position sizing of a copy trader that runs without a language model: a
\* market signal, a limit signal and a market signal with a tight stop, on an
\* account whose free margin is small or ample
SizingSignals == {r \in SignalRows : r.insight_id \in {1, 3}} \cup TightStopSignals
SizingAvailables == {20, 230}

NextZ ==
  \/ \E row \in SizingSignals : DeliverSignal(row)
  \/ \E t \in TradeIds : CooldownExpires(t)
  \/ TraderScanSignals(1)
  \/ TraderSignal(1)
  \/ \E an \in FallbackAnalyses, tok \in BOOLEAN, cp \in EntryPrices,
        av \in SizingAvailables, ok \in BOOLEAN :
        TraderExec(1, an, tok, cp, av, ok, cp)
  \/ TraderScanUpdates(1)
  \/ TraderSleep(1)

SpecZ == InitNoUpdates /\ [][NextZ]_vars

\* ================================================================ claims
TradesFrom(x) == {t \in TradeIds : trades[t].status # "none" /\ trades[t].src = x}
ExitsOf(t) == SelectSeq(partial_exits, LAMBDA e : e.trade_id = t)
\* the P&L of the PartialExit records of a trade, added up
RECURSIVE SumPnl(_)
SumPnl(exits) == IF exits = <<>> THEN 0 ELSE Head(exits).pnl + SumPnl(Tail(exits))
ExitsBy(u, t) == SelectSeq(partial_exits, LAMBDA e : e.trade_id = t /\ e.by = u)

\* C1: however often the trading loop of the copy trader executes the rows
\* that carry one raw text, in one cycle or in later ones, before or after a
\* restart, at most one trade row is ever created from that text (the
\* processed-signal marker makes every later execution a no-op).
SignalIdempotent ==
  \A x \in RawTexts : Cardinality(TradesFrom(x)) <= 1

\* C2: the remaining quantity of a trade never increases, is never negative
\* and never exceeds the original quantity.
RemainingNeverGrows ==
  [][\A t \in TradeIds :
       trades[t].status # "none" =>
          /\ trades'[t].remaining_quantity <= trades[t].remaining_quantity
          /\ trades'[t].remaining_quantity >= 0
          /\ trades'[t].remaining_quantity
                <= OrElse(trades'[t].original_quantity, trades'[t].quantity)]_vars

\* C3: an open long trade with at least one partial exit done has its stop
\* at or above the entry price (a short: at or below).
BreakevenAfterPartial ==
  \A t \in TradeIds :
     (trades[t].status = "open" /\ trades[t].partial_exits_done >= 1) =>
        IF trades[t].side = "buy"
        THEN trades[t].stop_loss >= trades[t].entry_price
        ELSE trades[t].stop_loss <= trades[t].entry_price

PollersApplyOnce ==
  \A x \in RawTexts : entry_orders[x] <= 1 /\ Cardinality(TradesFrom(x)) <= 1

\* C6: every partial-exit transition is computed from the row as it is when
\* the transition is written: the trade is open, the exited quantity comes
\* out of the remaining quantity the row holds, and the partial count goes up
\* by one (no lost update, no exit applied to a row another transition has
\* already changed).
SerializedTransitions ==
  [][Len(partial_exits') = Len(partial_exits) + 1 =>
       LET e == partial_exits'[Len(partial_exits')]
           t == e.trade_id
       IN /\ trades[t].status = "open"
          /\ e.quantity_exited <= trades[t].remaining_quantity
          /\ trades'[t].remaining_quantity
                = trades[t].remaining_quantity - e.quantity_exited
          /\ trades'[t].partial_exits_done = trades[t].partial_exits_done + 1]_vars

\* C7: an update message applied and marked before a restart of the update
\* processor is not applied again after it.
AppliedOnceAcrossRestarts ==
  \A u \in UpdateIds, t \in TradeIds : applied_ever[u][t] <= 1

\* C8: the copy trader applies and records an update found by
\* scan_for_trade_updates at most once.
TraderUpdateRecordedOnce ==
  \A u \in UpdateIds : trade_updates[u] <= 1

\* C9 (Scenario C): for the long position entered at 100 with stop 90 and TP1
\* 110, the poll at 111 records exactly one PartialExit of 40% of the original
\* quantity and sets the stop to 100; the later poll at or below the stop
\* closes the position as a breakeven stop, with the final-slice P&L computed
\* on the remaining 60% and the trade P&L = partial P&L + final-slice P&L.
ScenarioC ==
  \A t \in TradeIds :
     (trades[t].status # "none" /\ trades[t].entry_price = 1000) =>
        LET q == trades[t].quantity
            first == (q * 40) \div 100
            exits == ExitsOf(t)
        IN /\ trades[t].partial_exits_done = Len(exits)
           /\ Len(exits) <= 1
           /\ Len(exits) = 1 =>
                /\ exits[1].quantity_exited = first
                /\ exits[1].exit_price = 1110
                /\ exits[1].new_stop_loss = Some(1000)
                /\ trades[t].stop_loss = 1000
                /\ trades[t].partial_pnl = (1110 - 1000) * first
                /\ trades[t].status = "open" => trades[t].remaining_quantity = q - first
                /\ trades[t].status = "closed" =>
                     /\ trades[t].notes = "Breakeven Stop (Free Trade)"
                     /\ trades[t].remaining_quantity = 0
                     /\ trades[t].pnl =
                          Some(trades[t].partial_pnl
                               + (trades[t].exit_price[1] - 1000) * (q - first))

\* C9 witness: the path 111 then 89 has been polled to the end.
ScenarioCClosed ==
  /\ trades[1].status = "closed"
  /\ trades[1].exit_price = Some(890)
  /\ trades[1].notes = "Breakeven Stop (Free Trade)"
  /\ Len(ExitsOf(1)) = 1
  /\ trades[1].pnl = Some((1110 - 1000) * 10000 + (890 - 1000) * 15000)

\* C10: once the stop of an open long trade is at or above its entry price,
\* no later write lowers it (a short: at or below, never raised).
StopNeverRegresses ==
  [][\A t \in TradeIds :
       (trades[t].status = "open" /\ trades'[t].status = "open") =>
          /\ (trades[t].side = "buy" /\ trades[t].stop_loss >= trades[t].entry_price)
                => trades'[t].stop_loss >= trades[t].stop_loss
          /\ (trades[t].side = "sell" /\ trades[t].stop_loss <= trades[t].entry_price)
                => trades'[t].stop_loss <= trades[t].stop_loss]_vars

\* C11: CLOSED is terminal: once a trade row is closed, no step of any loop
\* changes its status, exit price, remaining quantity, stop-loss or P&L, adds
\* a PartialExit record for it or places another exchange order for it.
ClosedIsTerminal ==
  [][\A t \in TradeIds :
       trades[t].status = "closed" =>
          /\ trades'[t].status = "closed"
          /\ trades'[t].exit_price = trades[t].exit_price
          /\ trades'[t].remaining_quantity = trades[t].remaining_quantity
          /\ trades'[t].stop_loss = trades[t].stop_loss
          /\ trades'[t].pnl = trades[t].pnl
          /\ Len(SelectSeq(partial_exits', LAMBDA e : e.trade_id = t)) = Len(ExitsOf(t))
          /\ exit_orders'[t] = exit_orders[t]]_vars

\* C12: partial_exits_done of a trade never decreases, whatever the
\* interleaving of the exit monitor (writes the count it read plus one) and
\* the update processor (increments the stored count).
PartialCountMonotone ==
  [][\A t \in TradeIds :
       trades'[t].partial_exits_done >= trades[t].partial_exits_done]_vars

\* C13: whenever the exchange answers 'failed' to the order of a price-driven
\* partial exit, a price-driven close, an instructed partial exit or an
\* instructed full exit, the same call still commits the ledger write of that
\* transition (the PartialExit record and the counters, or the closed row).
LedgerWriteSurvivesFailedOrder ==
  [][\A t \in TradeIds, c \in Causes :
       exit_log'[t][c].failed > exit_log[t][c].failed =>
          IF c[1] = "tp" THEN
            /\ Len(SelectSeq(partial_exits', LAMBDA e : e.trade_id = t)) = Len(ExitsOf(t)) + 1
            /\ trades'[t].partial_exits_done = mloc.partial_exits + 1
            /\ trades'[t].partial_pnl = trades[t].partial_pnl + mloc.pnl
          ELSE IF c[1] = "stop" THEN
            /\ trades'[t].status = "closed"
            /\ trades'[t].remaining_quantity = 0
            /\ trades'[t].exit_price = Some(mloc.exit_price)
          ELSE IF uact.partial_percent < 100 THEN
            /\ Len(SelectSeq(partial_exits', LAMBDA e : e.trade_id = t)) = Len(ExitsOf(t)) + 1
            /\ trades'[t].remaining_quantity =
                  trades[t].remaining_quantity - PartialQty(Head(ut), uact)
            /\ trades'[t].partial_exits_done = trades[t].partial_exits_done + 1
          ELSE
            /\ trades'[t].status = "closed"
            /\ trades'[t].exit_price # Null]_vars

\* every one of the four orders of trade 1 was answered 'failed', and the
\* ledger holds both partial exits and the closed row
FailedOrdersCommitted ==
  /\ exit_log[1][<<"tp", 1>>].failed = 1
  /\ exit_log[1][<<"stop", 0>>].failed = 1
  /\ exit_log[1][<<"update", 2>>].failed = 1
  /\ exit_log[1][<<"update", 4>>].failed = 1
  /\ Len(ExitsOf(1)) = 2
  /\ trades[1].status = "closed"

\* C14: whenever the exchange answers 'failed' to the order of a price-driven
\* partial exit or close, the audit note committed by that call (the notes of
\* the new PartialExit record, or the notes of the closed trade row) carries
\* the 'EXCHANGE ERROR' marker.
FailedOrderMarked ==
  [][\A t \in TradeIds, c \in {<<"tp", 1>>, <<"tp", 2>>, <<"stop", 0>>} :
       exit_log'[t][c].failed > exit_log[t][c].failed =>
          IF c[1] = "tp"
          THEN partial_exits'[Len(partial_exits')].notes = "EXCHANGE ERROR"
          ELSE trades'[t].notes = "EXCHANGE ERROR"]_vars

\* C15: at most one exchange order is sent per transition: for every trade,
\* no take-profit level, stop or update message has its order sent a second
\* time, whether the first order or the ledger write after it failed.
OneOrderPerTransition ==
  \A t \in TradeIds, c \in Causes : exit_log[t][c].sent <= 1

\* C16: when execute_partial_exit or close_remaining_position returns after
\* sending an order, the ledger reflects the exit: the PartialExit record is
\* there, or the row is closed at the exit price with nothing remaining.
LedgerConsistentEnd ==
  [][\A t \in TradeIds :
       (mpc \in {"partial", "close"} /\ mpc' = "check"
          /\ exit_orders'[t] > exit_orders[t]) =>
          IF mpc = "partial"
          THEN Len(SelectSeq(partial_exits', LAMBDA e : e.trade_id = t)) = Len(ExitsOf(t)) + 1
          ELSE /\ trades'[t].status = "closed"
               /\ trades'[t].remaining_quantity = 0
               /\ trades'[t].exit_price = Some(mloc.exit_price)]_vars

\* the stop-loss and take-profit conditions of check_exit_conditions on the
\* trade dict of a poll
StopCondition(trade, current_price) ==
  /\ trade.stop_loss # 0
  /\ IF trade.side = "buy" THEN current_price <= trade.stop_loss
                            ELSE current_price >= trade.stop_loss

TakeProfitCondition(trade, current_price) ==
  \/ /\ trade.partial_exits_done = 0 /\ trade.take_profit_1 # 0
     /\ IF trade.side = "buy" THEN current_price >= trade.take_profit_1
                               ELSE current_price <= trade.take_profit_1
  \/ /\ trade.partial_exits_done = 1 /\ trade.take_profit_2 # 0
     /\ IF trade.side = "buy" THEN current_price >= trade.take_profit_2
                               ELSE current_price <= trade.take_profit_2

\* C17: on every poll the stop-loss test comes before the take-profit tests:
\* for a price that meets both conditions of the polled position the decision
\* is the full close, a partial exit is never started at a price that meets
\* the stop condition, and the close that follows closes the row and adds no
\* PartialExit record.
StopBeforeTakeProfit ==
  [][/\ (mpc = "check" /\ mq # <<>>) =>
          \A cp \in Prices :
             (StopCondition(Head(mq), cp) /\ TakeProfitCondition(Head(mq), cp))
                => ExitDecision(Head(mq), cp).op = "close"
     /\ (mpc = "check" /\ mpc' = "partial") =>
          ~StopCondition(Head(mq), mloc'.exit_price)
     /\ (mpc = "close" /\ mpc' = "check") =>
          /\ trades'[mloc.trade_id].status = "closed"
          /\ trades'[mloc.trade_id].remaining_quantity = 0
          /\ partial_exits' = partial_exits]_vars

\* a long and a short were each polled at a price that met both their stop
\* and their first target, and were closed whole without a partial exit
ClosedWithTargetMet ==
  \E t, u \in TradeIds :
     /\ trades[t].side = "buy" /\ trades[u].side = "sell"
     /\ \A x \in {t, u} :
          /\ trades[x].status = "closed"
          /\ trades[x].notes \in {"Breakeven Stop (Free Trade)", "Stop Loss Hit"}
          /\ trades[x].partial_exits_done = 0
          /\ Len(ExitsOf(x)) = 0
          /\ trades[x].exit_price # Null
          /\ StopCondition(trades[x], trades[x].exit_price[1])
          /\ TakeProfitCondition(trades[x], trades[x].exit_price[1])

\* C18: every step that closes an open position leaves remaining_quantity = 0
\* and P&L = the P&L of all its PartialExit records plus the P&L of the final
\* slice (the quantity that remained, at the exit price; nothing more when the
\* closing step itself recorded the last slice as a PartialExit).
ClosePinsQuantityAndPnl ==
  [][\A t \in TradeIds :
       (trades[t].status = "open" /\ trades'[t].status = "closed") =>
          LET after == SelectSeq(partial_exits', LAMBDA e : e.trade_id = t)
              final == IF Len(after) > Len(ExitsOf(t)) THEN 0
                       ELSE PnlPerUnit(trades[t].side, trades[t].entry_price,
                                       trades'[t].exit_price[1])
                               * trades[t].remaining_quantity
          IN /\ trades'[t].exit_price # Null
             /\ trades'[t].remaining_quantity = 0
             /\ trades'[t].pnl = Some(SumPnl(after) + final)]_vars

\* C19: Scenario D.  While the update processor works on the message "both
\* trades risk-free, letting targets cook" (row 5), with a position open on
\* each of two symbols, it adds no PartialExit record and changes no remaining
\* quantity, and when it is done with the message the stop-loss of both
\* positions is at breakeven (the entry price, or the entry price with the
\* 0.1% fee allowance of move_stop_to_breakeven).
ScenarioD ==
  [][(uq # <<>> /\ Head(uq).update_id = 5 /\ upc \in {"lines", "trades", "stop"}) =>
        /\ partial_exits' = partial_exits
        /\ \A t \in TradeIds :
              trades'[t].remaining_quantity = trades[t].remaining_quantity
        /\ (upc = "lines" /\ ul = <<>> /\ upc' = "scan") =>
              /\ BothPositionsOpen
              /\ \A t \in TradeIds :
                    trades[t].stop_loss \in {trades[t].entry_price,
                                             Breakeven(trades[t])}]_vars

\* C20: a call of execute_gauls_signal for a signal without a stop-loss places
\* no entry order and records no trade row; and whenever a call does place an
\* order or record a row, the signal has a stop-loss and the execution price
\* written to the row differs from it (risk per unit is not 0).
RejectedSignalOpensNothing ==
  [][\A p \in Pollers :
        (tpc[p] = "exec" /\ tpc'[p] = "signals") =>
          LET signal == Head(tsig[p]) IN
            /\ signal.stop_loss = 0 =>
                  entry_orders' = entry_orders /\ trades' = trades
            /\ (entry_orders' # entry_orders \/ trades' # trades) =>
                  /\ signal.stop_loss # 0
                  /\ trades'[NextId(trades)].entry_price # signal.stop_loss
            /\ last_result'[p][2] \in {"no_stop", "zero_risk"} =>
                  entry_orders' = entry_orders /\ trades' = trades]_vars

\* both rejections have happened and the ledger and the exchange are untouched
BothRejectionsSeen ==
  /\ last_result[1] = <<7, "no_stop">>
  /\ last_result[2] = <<1, "zero_risk">>
  /\ UsedIds(trades) = {}
  /\ \A raw \in RawTexts : entry_orders[raw] = 0

\* C21: a call of execute_gauls_signal whose entry order the exchange reports
\* as failed records no trade row and adds no entry to the caller's positions
\* map.
FailedEntryOpensNothing ==
  [][\A p \in Pollers :
        (tpc[p] = "exec" /\ tpc'[p] = "signals"
           /\ last_result'[p][2] = "order_failed") =>
          trades' = trades /\ positions'[p] = positions[p]]_vars

\* C22: every trade row of the ledger has status open or closed; in
\* particular the row written for an applied signal is open, so that the
\* open-trade query of the exit monitor returns it.
StatusOpenOrClosed ==
  \A t \in UsedIds(trades) : trades[t].status \in {"open", "closed"}

\* C23: a signal that execute_gauls_signal has once skipped for the
\* same-symbol cooldown is discarded: no later call opens a trade for it.
CooldownSkipIsFinal ==
  [][(tpc[1] = "exec" /\ tpc'[1] = "signals" /\ trades' # trades) =>
        Head(tsig[1]).insight_id \notin cooldown_skipped]_vars

\* C24: a poll cycle of a loop ends only when every item it fetched has been
\* handled: the update processor leaves no unprocessed message behind the one
\* that failed, the exit monitor no open trade, the copy trader no signal and
\* no update.
CycleHandlesEveryItem ==
  [][/\ (upc # "idle" /\ upc' = "idle") =>
          \A i \in 2..Len(uq) :
             IsProcessedUpdate(processed_updates, PyHash(useed, uq[i]))
     /\ (mpc # "idle" /\ mpc' = "idle") => mq = <<>>
     /\ \A p \in Pollers :
          (tpc[p] # "idle" /\ tpc'[p] = "idle") => tsig[p] = <<>> /\ tupd[p] = <<>>]_vars

\* C25: for every open trade and every percentage of an update instruction,
\* execute_action of the update processor would exit the quantity that
\* execute_partial_exit of the exit monitor exits for that percentage: the
\* percentage of the original quantity, capped at the remaining quantity.
ExplicitExitMatchesPriceDriven ==
  \A t \in TradeIds :
     trades[t].status = "open" =>
       \A percent \in {30, 40, 70} :
          PartialQty(Head(MatchingTrades(trades, trades[t].symbol, t)),
                     [partial_percent |-> percent])
            = PartialExitLocals(trades[t], t, trades[t].entry_price,
                                [exit_percent |-> percent, tp_level |-> 1,
                                 new_stop_loss |-> trades[t].stop_loss]).exit_quantity

\* C26: when execute_gauls_signal opens a position without the margin
\* scale-down and with size modifier 1.0, the recorded quantity times the
\* distance from the execution price to the stop is the maximum loss per
\* trade, up to the rounding of one quantity unit.
SizingRoundTrip ==
  [][(tpc[1] = "exec" /\ tpc'[1] = "signals" /\ trades' # trades) =>
        LET row == trades'[NextId(trades)]
            available == last_result'[1][3]
            risk_per_unit == RiskPerUnit(row.entry_price, row.stop_loss)
        IN (/\ last_result'[1][2] = "executed"
            /\ last_result'[1][4] = 100
            /\ MarginRequired(row.entry_price, row.stop_loss) <= Money(available))
           => Abs(row.quantity * risk_per_unit - Money(MAX_LOSS_PER_TRADE_EUR))
                 <= risk_per_unit]_vars

\* C27: the margin of the position the sizer computes never exceeds the usage
\* fraction (90%) of the available free margin.
MarginWithinUsage ==
  [][(tpc[1] = "exec" /\ tpc'[1] = "signals" /\ trades' # trades) =>
        LET row == trades'[NextId(trades)]
            available == last_result'[1][3]
            quantity == SizedQuantity(row.entry_price, row.stop_loss, available)
        IN ((quantity * row.entry_price) \div GAULS_LEVERAGE) * 10
              <= Money(available) * (MARGIN_USAGE_PCT \div 10)]_vars

\* C28: a copy trader without a language model executes a non-market signal
\* with size modifier 1.0: the quantity it orders is the one the sizer
\* computes.
FallbackPlanKeepsSize ==
  [][(tpc[1] = "exec" /\ tpc'[1] = "signals" /\ trades' # trades
        /\ Head(tsig[1]).entry_type # "market") =>
        LET row == trades'[NextId(trades)]
            quantity == SizedQuantity(row.entry_price, row.stop_loss, last_result'[1][3])
        IN /\ last_result'[1][4] = 100
           /\ row.quantity \in {quantity} \cup {CappedAmount(quantity, last) :
                                                  last \in EntryPrices}]_vars

\* C29: in a message with symbol lines, the action the update processor
\* determines for a symbol whose own line carries an informational mention
\* ('running') has no partial-exit percentage.
LineMentionDecides ==
  [][(upc = "lines" /\ upc' = "trades") =>
        LET message == Head(uq)
            symbol_data == extract_symbol_updates(message)[Len(message.lines) - Len(ul) + 1]
        IN symbol_data.r_action = "running" => uact'.partial_percent = 0]_vars

\* C30: the action determined for a message with a 'let targets cook / hold /
\* patience' phrase has no partial-exit percentage.
LetCookSuppressesPartial ==
  [][(upc = "lines" /\ upc' = "trades" /\ Head(uq).let_cook) =>
        uact'.partial_percent = 0]_vars

\* ============================================================ signal parser
\* A message text as the patterns of GaulsSignalParser read it: the tokens of
\* its headline, the tokens that follow its 'Entry:' label, and its take-profit
\* and stop-loss labels with the number after each.  Numbers are in hundredths.
\* Every word of a headline has 2 to 10 letters.
TextScale == 100
W(s) == [word |-> s, num |-> 0]
N(n) == [word |-> "#", num |-> n]

MessageTexts ==
  { \* "$BTC Buying Setup: Entry: CMP TP: 114786 SL: 111468"
    [name |-> "A$", headline |-> <<W("$"), W("BTC"), W("Buying"), W("Setup"), W(":")>>,
     entry |-> <<W("CMP")>>, tp_label |-> "TP", tp |-> 11478600, tp_x |-> FALSE,
     sl_label |-> "SL", sl |-> 11146800],
    \* "BTC Buying Setup: Entry: CMP TP: 114786 SL: 111468"
    [name |-> "A", headline |-> <<W("BTC"), W("Buying"), W("Setup"), W(":")>>,
     entry |-> <<W("CMP")>>, tp_label |-> "TP", tp |-> 11478600, tp_x |-> FALSE,
     sl_label |-> "SL", sl |-> 11146800],
    \* "$SEI Spot/Swing Buying Setup: Entry: CMP till 2780 TP: 0.43 SL: 0.26"
    [name |-> "B", headline |-> <<W("$"), W("SEI"), W("Spot"), W("/"), W("Swing"),
                                   W("Buying"), W("Setup"), W(":")>>,
     entry |-> <<W("CMP"), W("till"), N(278000)>>, tp_label |-> "TP", tp |-> 43,
     tp_x |-> FALSE, sl_label |-> "SL", sl |-> 26],
    \* "$SEI Buying Setup: Entry: CMP down to 2780 TP: 3000 SL: 2600"
    [name |-> "DownTo", headline |-> <<W("$"), W("SEI"), W("Buying"), W("Setup"), W(":")>>,
     entry |-> <<W("CMP"), W("down"), W("to"), N(278000)>>, tp_label |-> "TP",
     tp |-> 300000, tp_x |-> FALSE, sl_label |-> "SL", sl |-> 260000],
    \* "$ETH buying setup: Entry: 3200 Target: 2x Invalidation: 3000"
    [name |-> "Twice", headline |-> <<W("$"), W("ETH"), W("buying"), W("setup"), W(":")>>,
     entry |-> <<N(320000)>>, tp_label |-> "Target", tp |-> 200, tp_x |-> TRUE,
     sl_label |-> "Invalidation", sl |-> 300000],
    \* "Market Update: BTC is looking strong, TP: 115000 SL: 112000"
    [name |-> "Update", headline |-> <<W("Market"), W("Update"), W(":")>>,
     entry |-> <<>>, tp_label |-> "TP", tp |-> 11500000, tp_x |-> FALSE,
     sl_label |-> "SL", sl |-> 11200000],
    \* "$SOL Buying Setup: Entry: 150 TP: 180" (no stop-loss label)
    [name |-> "NoStop", headline |-> <<W("$"), W("SOL"), W("Buying"), W("Setup"), W(":")>>,
     entry |-> <<N(15000)>>, tp_label |-> "TP", tp |-> 18000, tp_x |-> FALSE,
     sl_label |-> "none", sl |-> 0] }

\* the rows of the archive that carry these texts
MessageRows ==
  { [insight_id |-> 11, raw_text |-> "A$", timestamp |-> 11],
    [insight_id |-> 12, raw_text |-> "A", timestamp |-> 12],
    [insight_id |-> 13, raw_text |-> "B", timestamp |-> 13],
    [insight_id |-> 14, raw_text |-> "DownTo", timestamp |-> 14],
    [insight_id |-> 15, raw_text |-> "Twice", timestamp |-> 15],
    [insight_id |-> 16, raw_text |-> "Update", timestamp |-> 16],
    [insight_id |-> 17, raw_text |-> "NoStop", timestamp |-> 17] }
TextOf(raw_text) == CHOOSE text \in MessageTexts : text.name = raw_text

\* re.IGNORECASE on the words the patterns name
IsBuying(tok) == tok.word \in {"Buying", "buying", "BUYING"}
IsSetup(tok) == tok.word \in {"Setup", "setup", "SETUP"}
IsLetters(tok) == tok.word \notin {"$", "/", ":", "#"}

\* patterns['buying_setup']: 'buying' and 'setup' with white space between
HasBuyingSetup(headline) ==
  \E i \in 1..(Len(headline) - 1) : IsBuying(headline[i]) /\ IsSetup(headline[i + 1])

\* patterns['symbol'], read with a '$' before the letters only
SymbolMatchesMarkedOnly(headline) ==
  { i \in 1..Len(headline) :
      /\ IsLetters(headline[i])
      /\ i > 1 /\ headline[i - 1].word = "$"
      /\ \E j \in (i + 1)..Len(headline) : IsBuying(headline[j]) \/ IsSetup(headline[j]) }

\* patterns['symbol']: \$?([A-Z]{2,10})\s*.*(?:Setup|buying|Buying), the
\* positions at which the pattern matches
SymbolMatches(headline) ==
  { i \in 1..Len(headline) :
      /\ IsLetters(headline[i])
      /\ \E j \in (i + 1)..Len(headline) : IsBuying(headline[j]) \/ IsSetup(headline[j]) }

\* target_price * (1 + 0.0063), to the hundredth below
ConservativePrice(target_price) == target_price + (target_price * 63) \div 10000

\* patterns['entry_price'] on the tokens after the label, and lines 64-84:
\* a number or CMP, then optionally 'down to' and a number
ParseEntry(entry) ==
  IF entry = <<>> \/ (entry[1].word # "#" /\ entry[1].word \notin {"CMP", "cmp"})
  THEN [entry_type |-> "market", entry_price |-> 0]
  ELSE IF entry[1].word # "#" THEN
    IF Len(entry) >= 4 /\ entry[2].word \in {"down", "Down"}
         /\ entry[3].word \in {"to", "To"} /\ entry[4].word = "#"
    THEN [entry_type |-> "limit", entry_price |-> ConservativePrice(entry[4].num)]
    ELSE [entry_type |-> "market", entry_price |-> 0]
  ELSE [entry_type |-> "limit", entry_price |-> entry[1].num]

\* parse_signal: Null for 'not a signal' (entry_price, stop_loss and
\* take_profit None are written 0)
parse_signal(text) ==
  IF ~HasBuyingSetup(text.headline) THEN Null
  ELSE IF SymbolMatches(text.headline) = {} THEN Null
  ELSE
    LET first == CHOOSE i \in SymbolMatches(text.headline) :
                   \A j \in SymbolMatches(text.headline) : i <= j
        symbol == text.headline[first].word
        e == ParseEntry(text.entry)
        stop_loss == IF text.sl_label \in {"SL", "Invalidation"} THEN text.sl ELSE 0
        take_profit ==
          IF text.tp_label \notin {"TP", "Target"} THEN 0
          ELSE IF ~text.tp_x THEN text.tp
          ELSE IF e.entry_price # 0 THEN (e.entry_price * text.tp) \div TextScale
          ELSE text.tp
    IN IF stop_loss # 0 /\ take_profit # 0
       THEN Some([symbol |-> symbol \o "/USDT", side |-> "buy",
                  entry_type |-> e.entry_type, entry_price |-> e.entry_price,
                  stop_loss |-> stop_loss, take_profit |-> take_profit,
                  raw_text |-> text.name])
       ELSE Null

\* scan_for_new_signals on rows of raw text: parse each row, keep the signals
RECURSIVE ParseRows(_)
ParseRows(rows) ==
  IF rows = <<>> THEN <<>>
  ELSE LET row == Head(rows)
           signal == parse_signal(TextOf(row.raw_text))
       IN IF signal = Null THEN ParseRows(Tail(rows))
          ELSE <<[insight_id |-> row.insight_id, timestamp |-> row.timestamp,
                  raw_text |-> row.raw_text, symbol |-> signal[1].symbol,
                  side |-> signal[1].side, entry_type |-> signal[1].entry_type,
                  entry_price |-> signal[1].entry_price,
                  stop_loss |-> signal[1].stop_loss,
                  take_profit |-> signal[1].take_profit]>> \o ParseRows(Tail(rows))

ScanForNewSignals(p) ==
  /\ tpc[p] = "idle"
  /\ tsig' = [tsig EXCEPT ![p] = ParseRows(SortDesc(gauls_messages))]
  /\ tpc' = [tpc EXCEPT ![p] = "signals"]
  /\ UNCHANGED <<executorVars, archiveVars, ledgerVars, signalVars, exchangeVars, monitorVars, updaterVars,
                 positions, last_result, cooldown_skipped, trestarts, tupd, trade_updates>>

\* the copy trader on raw texts while the exchange answers no ticker
NextA ==
  \/ \E row \in MessageRows : DeliverSignal(row)
  \/ ScanForNewSignals(1)
  \/ TraderSignal(1)
  \/ \E an \in LlmAnalyses, cp \in EntryPrices, av \in Availables, last \in EntryPrices :
        TraderExec(1, an, FALSE, cp, av, FALSE, last)
  \/ TraderScanUpdates(1)
  \/ TraderSleep(1)

SpecA == InitNoUpdates /\ [][NextA]_vars

ScenarioB ==
  [][(tpc[1] = "idle" /\ tpc'[1] = "signals") =>
       \A row \in gauls_messages : row.raw_text = "B" =>
         \E i \in 1..Len(tsig'[1]) :
           LET signal == tsig'[1][i] IN
             /\ signal.insight_id = row.insight_id
             /\ signal.symbol = "SEI/USDT"
             /\ signal.entry_type = "limit"
             /\ signal.entry_price = ConservativePrice(2780 * TextScale)
             /\ signal.take_profit = 43]_vars

\* the three services on a position with two take-profit levels (entry 100,
\* stop 90, TP1 110, TP2 120) or on one with a tight stop (entry 100, stop
\* 98.9, sized beyond the notional limit of the exchange wrapper); the entry
\* order may be answered 'failed'; the update processor receives 'book 70% here'
\* or a message that is one R mention
TargetPrices == {900, 1000, 1100, 1200}
BookRows == {r \in UpdateRows : r.update_id = 2}

\* one signal dict is handed to the copy trader of an empty ledger
CallOnce(signal) == UsedIds(trades) = {} /\ TraderCall(1, signal)

\* one message reaches the update archive
DeliverOne(row) == all_gauls_messages = {} /\ DeliverUpdate(row)

NextM ==
  \/ \E signal \in TwoTargetSignals \cup TightStopSignals : CallOnce(signal)
  \/ TraderSignal(1)
  \/ \E av \in Availables, ok \in Answers : TraderExec(1, Proceed, TRUE, 1000, av, ok, 1000)
  \/ TraderScanUpdates(1)
  \/ TraderSleep(1)
  \/ MonitorBegin
  \/ \E cp \in TargetPrices : MonitorCheck(TRUE, cp)
  \/ \E ok \in Filled : MonitorPartialExit(ok)
  \/ \E ok \in Filled : MonitorClose(ok)
  \/ MonitorSleep
  \/ \E row \in BookRows \cup MentionRows : DeliverOne(row)
  \/ UpdScan
  \/ UpdMessage
  \/ UpdLine
  \/ \E tok \in BOOLEAN, cp \in TargetPrices, ok \in Filled : UpdExecute(tok, cp, ok)
  \/ UpdFinish
  \/ UpdSleep

SpecM == InitNoUpdates /\ [][NextM]_vars

RBandMapping ==
  [][(upc = "lines" /\ upc' = "trades" /\ Head(uq).r_action # 0) =>
       LET message == Head(uq) IN
         /\ (message.r_action >= 10 /\ message.r_action < 20)
              => uact'.partial_percent = tp1_exit_percent /\ uact'.move_sl
         /\ message.r_action >= 20
              => uact'.partial_percent = tp2_exit_percent /\ ~uact'.move_sl
         /\ message.r_action >= 10
              \/ message.book_partial # 0 \/ message.risk_free]_vars

\* execute_gauls_signal when the INSERT of _record_gauls_trade raises (the
\* trades database is locked by another service): the order has been sent,
\* the except of _record_gauls_trade logs the error before
\* _record_processed_signal is reached, and execute_gauls_signal goes on to
\* track the position in memory
TraderExecWriteFails(p, analysis, current_price) ==
  /\ tpc[p] = "exec"
  /\ LET signal == Head(tsig[p])
         execution_price == ExecutionPrice(signal, current_price)
     IN /\ signal.entry_type = "market" \/ generate_execution_plan(analysis).should_execute
        /\ signal.stop_loss # 0
        /\ RiskPerUnit(execution_price, signal.stop_loss) # 0
        /\ entry_orders' = [entry_orders EXCEPT ![signal.raw_text] = @ + 1]
        /\ positions' = [positions EXCEPT ![p] =
             PutPosition(positions[p],
               [key |-> SignalKey(signal), symbol |-> signal.symbol,
                entry_price |-> current_price])]
        /\ last_result' = [last_result EXCEPT ![p] = <<signal.insight_id, "record_failed">>]
  /\ tsig' = [tsig EXCEPT ![p] = Tail(tsig[p])]
  /\ tpc' = [tpc EXCEPT ![p] = "signals"]
  /\ UNCHANGED <<executorVars, archiveVars, ledgerVars, processed_gauls_signals, exchangeVars, monitorVars,
                 updaterVars, trestarts, tupd, trade_updates, cooldown_skipped>>

\* the "risk free" instruction of the channel
RiskFreeRows == {r \in UpdateRows : r.update_id = 3}

\* the copy-trader service alone, with restarts, on a trades database whose
\* writes may fail: signal ingestion and its own handling of the risk-free
\* instruction
NextE ==
  \/ \E row \in ValidationSignals : DeliverSignal(row)
  \/ \E t \in TradeIds : CooldownExpires(t)
  \/ TraderScanSignals(1)
  \/ TraderSignal(1)
  \/ \E an \in LlmAnalyses, tok \in BOOLEAN, cp \in EntryPrices, av \in Availables,
        ok \in BOOLEAN :
        TraderExec(1, an, tok, cp, av, ok, cp)
  \/ \E an \in LlmAnalyses, cp \in EntryPrices : TraderExecWriteFails(1, an, cp)
  \/ \E row \in RiskFreeRows : DeliverUpdate(row)
  \/ TraderScanUpdates(1)
  \/ TraderUpdate(1)
  \/ TraderSleep(1)
  \/ TraderRestart(1)

SpecE == InitNoUpdates /\ [][NextE]_vars

\* C35: at most one entry order is ever sent to the exchange for a signal,
\* also when the write of its trade row fails.
OneEntryOrderPerSignal ==
  \A row \in ValidationSignals : entry_orders[row.raw_text] <= 1

\* C36: the amount create_order sends for an exit of the price loop is the
\* quantity the loop deducts from the trade: the notional limit does not cut
\* the exit_quantity of a partial exit nor the remaining quantity of a close.
ExitOrderMatchesLedger ==
  [][/\ (mpc = "partial" /\ mpc' = "check")
          => CappedAmount(mloc.exit_quantity, mloc.exit_price) = mloc.exit_quantity
     /\ (mpc = "close" /\ mpc' = "check")
          => CappedAmount(mloc.remaining_qty, mloc.exit_price) = mloc.remaining_qty]_vars

\* the quantities of the PartialExit records of a trade, added up
RECURSIVE SumQuantity(_)
SumQuantity(exits) ==
  IF exits = <<>> THEN 0 ELSE Head(exits).quantity_exited + SumQuantity(Tail(exits))

\* C37: for every trade, partial_exits_done is the number of its PartialExit
\* records, partial_pnl is the sum of their pnl and, while the trade is open,
\* the original quantity minus the remaining quantity is the sum of their
\* quantities.
AuditConsistent ==
  \A t \in UsedIds(trades) :
     /\ trades[t].partial_exits_done = Len(ExitsOf(t))
     /\ trades[t].partial_pnl = SumPnl(ExitsOf(t))
     /\ trades[t].status = "open" =>
          OrElse(trades[t].original_quantity, trades[t].quantity)
             - trades[t].remaining_quantity = SumQuantity(ExitsOf(t))

\* C38: a move-to-breakeven write of the copy trader sets the stop-loss of a
\* trade to the entry price of that trade's own row.
BreakevenIsOwnEntry ==
  [][\A t \in TradeIds :
       (tpc[1] = "updates" /\ trades[t].status = "open"
          /\ trades'[t].stop_loss # trades[t].stop_loss)
       => trades'[t].stop_loss = trades[t].entry_price]_vars

\* ------------------------------------------------- the stop under fairness
\* the market price is at or beyond the stop-loss of a position (side-aware)
BeyondStop(row, current_price) ==
  /\ row.stop_loss # 0
  /\ IF row.side = "buy" THEN current_price <= row.stop_loss
                         ELSE current_price >= row.stop_loss

\* one pass of the for loop of monitor_loop over a trade whose market price
\* stays at or beyond its stop-loss
StopCheck(ticker_ok, current_price) ==
  /\ mq # <<>>
  /\ BeyondStop(trades[Head(mq).id], current_price)
  /\ MonitorCheck(ticker_ok, current_price)

\* the pass over trade t
StopCheckOf(t, ticker_ok, current_price) ==
  /\ mq # <<>>
  /\ Head(mq).id = t
  /\ StopCheck(ticker_ok, current_price)

\* a long whose stop is one of the prices the market takes, and a short
StopSignals == TwoTargetSignals \cup {s \in TightStopSignals : s.side = "sell"}

\* the copy trader opens longs and shorts with a stop; in every cycle of the
\* price loop the ticker of a trade answers or raises, and the close order is
\* filled or fails
NextL ==
  \/ \E signal \in StopSignals : TraderCall(1, signal)
  \/ \E t \in TradeIds : CooldownExpires(t)
  \/ TraderSignal(1)
  \/ \E av \in Availables : TraderExec(1, Proceed, TRUE, 1000, av, TRUE, 1000)
  \/ TraderScanUpdates(1)
  \/ TraderSleep(1)
  \/ MonitorBegin
  \/ \E ticker_ok \in BOOLEAN, cp \in TargetPrices : StopCheck(ticker_ok, cp)
  \/ \E ok \in Answers : MonitorClose(ok)
  \/ MonitorSleep

\* the while True loop of monitor_loop never stops taking its next step, and
\* the ticker of every trade eventually answers
FairL ==
  /\ WF_vars(MonitorBegin)
  /\ WF_vars(\E ticker_ok \in BOOLEAN, cp \in TargetPrices : StopCheck(ticker_ok, cp))
  /\ WF_vars(\E ok \in Answers : MonitorClose(ok))
  /\ WF_vars(MonitorSleep)
  /\ \A t \in TradeIds : SF_vars(\E cp \in TargetPrices : StopCheckOf(t, TRUE, cp))

SpecL == InitNoUpdates /\ [][NextL]_vars /\ FairL

\* C39: an open position with a stop-loss whose market price stays at or
\* beyond the stop is eventually closed in the ledger with remaining
\* quantity 0, whether the close order is filled or fails.
StopEventuallyCloses ==
  \A t \in TradeIds :
    (trades[t].status = "open" /\ trades[t].stop_loss # 0)
      ~> (trades[t].status = "closed" /\ trades[t].remaining_quantity = 0)

\* a short and a long have both been closed on their stops, one of them by a
\* close order that the exchange did not fill
StoppedOutBothSides ==
  \E t, u \in TradeIds :
    /\ trades[t].status = "closed" /\ trades[t].side = "buy"
    /\ trades[u].status = "closed" /\ trades[u].side = "sell"
    /\ trades[t].remaining_quantity = 0 /\ trades[u].remaining_quantity = 0
    /\ \E x \in {t, u} : exit_log[x][<<"stop", 0>>].failed > 0

\* ============================================ partial executor (1R and 2R)
\* The messages of the channel about an open BTC trade, by what the patterns
\* of GaulsUpdateMonitor find in them (re.search, case-insensitive) and by
\* what extract_symbol_from_message returns:
\*   "one_r"   "$BTC TRADE UPDATE: +1R done, book partials"
\*   "two_r"   "$BTC TRADE UPDATE: +2R done"
\*   "both"    "$BTC TRADE UPDATE: +2R hit after +1R done"
\*   "three_r" "$BTC TRADE UPDATE: +3R reached"
\*   "free"    "BTC/USDT is risk free now"
\*   "book"    "$BTC book 40% partial"
\*   "bare"    "TRADE UPDATE: +1R done"            (no symbol in the text)
\*   "late"    "$BTC +3R reached"                  (no LIKE of the SELECT matches)
ExecutorTexts ==
  { [text |-> "one_r", symbol |-> "BTC/USDT", finds |-> {"+1R"}, percent |-> 0],
    [text |-> "two_r", symbol |-> "BTC/USDT", finds |-> {"+2R"}, percent |-> 0],
    [text |-> "both", symbol |-> "BTC/USDT", finds |-> {"+1R", "+2R"}, percent |-> 0],
    [text |-> "three_r", symbol |-> "BTC/USDT", finds |-> {"+3R"}, percent |-> 0],
    [text |-> "free", symbol |-> "BTC/USDT", finds |-> {"risk_free"}, percent |-> 0],
    [text |-> "book", symbol |-> "BTC/USDT", finds |-> {"partial"}, percent |-> 40],
    [text |-> "bare", symbol |-> "", finds |-> {"+1R"}, percent |-> 0],
    [text |-> "late", symbol |-> "BTC/USDT", finds |-> {"+3R"}, percent |-> 0] }

\* the WHERE clause of check_for_updates: the text has 'TRADE UPDATE', '+1R',
\* '+2R', 'partial' or 'risk free' (the rows of one run are all of the last hour)
Listed(m) == m.text # "late"

\* rows of raw_telegram_messages the channel may post in one run
MaxExecutorMessages == 3

\* check_for_updates: the signal type of a message, first pattern that finds
\* a match; "" stands for None
SignalType(m) ==
  IF "+1R" \in m.finds THEN "+1R done"
  ELSE IF "+2R" \in m.finds THEN "+2R done"
  ELSE IF "+3R" \in m.finds THEN "+3R done (full close)"
  ELSE IF "risk_free" \in m.finds THEN "move SL to BE"
  ELSE IF "early_close" \in m.finds THEN "early close (cut loss)"
  ELSE IF "weekend_close" \in m.finds THEN "weekend close"
  ELSE IF "close" \in m.finds THEN "close position"
  ELSE IF "partial" \in m.finds THEN "take N% partial"
  ELSE ""

\* process_gauls_signal: the branch its substring tests on signal_type choose
\* ('move SL' / 'risk free', '1R', '2R', '3R', 'close' / 'exit' / 'cut loss')
SignalBranch(signal_type) ==
  IF signal_type = "move SL to BE" THEN "breakeven"
  ELSE IF signal_type = "+1R done" THEN "1R"
  ELSE IF signal_type = "+2R done" THEN "2R"
  ELSE IF signal_type = "+3R done (full close)" THEN "close"
  ELSE IF signal_type \in {"early close (cut loss)", "weekend close", "close position"}
       THEN "close"
  ELSE "none"

\* process_gauls_signal: the newest open trade on the symbol, 0 if none
OpenExecutorTrade(tr, symbol) ==
  LET open == {t \in TradeIds : tr[t].status = "open" /\ tr[t].symbol = symbol}
  IN IF open = {} THEN 0 ELSE CHOOSE t \in open : \A u \in open : u <= t

\* execute_partial_close: the number the partial is stored under
PartialNumber(trade) == IF trade.partial_1_qty = Null THEN 1 ELSE 2

\* update_database_partial: the row after the partial is stored
StoredPartial(row, partial_number, partial_qty, remaining_qty) ==
  IF partial_number = 1
  THEN [row EXCEPT !.partial_1_qty = Some(partial_qty),
                   !.remaining_qty = Some(remaining_qty),
                   !.notes = @ \cup {"+1R partial taken via Gauls signal"}]
  ELSE [row EXCEPT !.partial_2_qty = Some(partial_qty),
                   !.remaining_qty = Some(remaining_qty),
                   !.notes = @ \cup {"+2R partial taken via Gauls signal"}]

\* move_stop_to_breakeven of the executor: the stop becomes the entry price
\* of the trade dict
ExecutorBreakeven(row, trade) ==
  [row EXCEPT !.stop_loss = trade.entry_price,
              !.notes = @ \cup {"SL moved to breakeven"}]

\* execute_partial_close and execute_full_close, as process_gauls_signal
\* calls them for the newest open trade on the symbol: the rows, the position
\* on the exchange and the percentage of the partial order placed (0: none).
\* position_ok: fetch_positions answers with the position; order_ok: the
\* reduce-only market order is accepted (it raises otherwise).
process_gauls_signal(tr, held, symbol, signal_type, position_ok, order_ok) ==
  LET t == OpenExecutorTrade(tr, symbol)
      nothing == [trades |-> tr, contracts |-> held, placed |-> 0]
      branch == SignalBranch(signal_type)
      partial(trade, partial_percent) ==
        LET partial_qty == (held * partial_percent) \div 100
            stored == StoredPartial(tr[t], PartialNumber(trade), partial_qty,
                                    held - partial_qty)
        IN [trades |-> [tr EXCEPT ![t] = IF partial_percent = 40
                                         THEN ExecutorBreakeven(stored, trade)
                                         ELSE stored],
            contracts |-> held - partial_qty, placed |-> partial_percent]
  IN IF t = 0 THEN nothing
     ELSE IF branch = "breakeven" THEN
       [nothing EXCEPT !.trades = [tr EXCEPT ![t] = ExecutorBreakeven(@, tr[t])]]
     ELSE IF branch = "1R" THEN
       IF tr[t].partial_1_qty = Null /\ position_ok /\ order_ok
       THEN partial(tr[t], 40) ELSE nothing
     ELSE IF branch = "2R" THEN
       IF tr[t].partial_2_qty = Null /\ position_ok /\ order_ok
       THEN partial(tr[t], 30) ELSE nothing
     ELSE IF branch = "close" THEN
       IF position_ok /\ order_ok
       THEN [trades |-> [tr EXCEPT ![t].status = "closed",
                                   ![t].notes = @ \cup {"Closed by Gauls signal"}],
             contracts |-> 0, placed |-> 0]
       ELSE nothing
     ELSE nothing

\* the channel posts a message; the listener stores it with the next id
PostMessage(m) ==
  /\ Len(raw_telegram_messages) < MaxExecutorMessages
  /\ raw_telegram_messages' = Append(raw_telegram_messages,
        [msg_id |-> Len(raw_telegram_messages) + 1, text |-> m.text,
         symbol |-> m.symbol, finds |-> m.finds, percent |-> m.percent])
  /\ UNCHANGED <<archiveVars, ledgerVars, signalVars, exchangeVars, traderVars,
                 monitorVars, updaterVars, executor_trades, contracts, reduce_orders,
                 processed_messages, xpc, xq>>

\* a long of 2.5 BTC is open in the executor's trades table and held on the
\* exchange (the executor itself opens no trade)
ExecutorTradeOpened(t) ==
  /\ executor_trades[t].status = "none"
  /\ \A u \in TradeIds : executor_trades[u].status = (IF u < t THEN "closed" ELSE "none")
  /\ executor_trades' = [executor_trades EXCEPT ![t] =
        [NoExecutorTrade EXCEPT !.status = "open", !.symbol = "BTC/USDT",
                                !.side = "buy", !.entry_price = 1000,
                                !.stop_loss = 900, !.quantity = 25000]]
  /\ contracts' = 25000
  /\ UNCHANGED <<archiveVars, ledgerVars, signalVars, exchangeVars, traderVars,
                 monitorVars, updaterVars, raw_telegram_messages, reduce_orders,
                 processed_messages, xpc, xq>>

\* the rows the SELECT of check_for_updates lists, newest first
RECURSIVE NewestFirst(_)
NewestFirst(rows) ==
  IF rows = <<>> THEN <<>>
  ELSE LET rest == NewestFirst(Tail(rows))
       IN IF Listed(Head(rows)) THEN Append(rest, Head(rows)) ELSE rest

\* check_for_updates: the SELECT
ExecutorScan ==
  /\ xpc = "idle"
  /\ xq' = NewestFirst(raw_telegram_messages)
  /\ xpc' = "messages"
  /\ UNCHANGED <<archiveVars, ledgerVars, signalVars, exchangeVars, traderVars,
                 monitorVars, updaterVars, raw_telegram_messages, executor_trades,
                 contracts, reduce_orders, processed_messages>>

\* check_for_updates: one pass of the for loop over the messages
ExecutorMessage(position_ok, order_ok) ==
  /\ xpc = "messages"
  /\ xq # <<>>
  /\ LET m == Head(xq)
         signal_type == SignalType(m)
         r == process_gauls_signal(executor_trades, contracts, m.symbol, signal_type,
                                   position_ok, order_ok)
     IN IF m.msg_id \in processed_messages \/ m.symbol = "" \/ signal_type = "" THEN
          UNCHANGED <<executor_trades, contracts, reduce_orders, processed_messages>>
        ELSE
          /\ executor_trades' = r.trades
          /\ contracts' = r.contracts
          /\ reduce_orders' =
               IF r.placed = 0 THEN reduce_orders
               ELSE [reduce_orders EXCEPT
                       ![OpenExecutorTrade(executor_trades, m.symbol)][r.placed] = @ + 1]
          /\ processed_messages' = processed_messages \cup {m.msg_id}
  /\ xq' = Tail(xq)
  /\ UNCHANGED <<archiveVars, ledgerVars, signalVars, exchangeVars, traderVars,
                 monitorVars, updaterVars, raw_telegram_messages, xpc>>

\* monitor_loop: the messages are done, sleep 30 seconds
ExecutorSleep ==
  /\ xpc = "messages"
  /\ xq = <<>>
  /\ xpc' = "idle"
  /\ UNCHANGED <<archiveVars, ledgerVars, signalVars, exchangeVars, traderVars,
                 monitorVars, updaterVars, raw_telegram_messages, executor_trades,
                 contracts, reduce_orders, processed_messages, xq>>

\* the update monitor is started again: processed_messages is empty
ExecutorRestart ==
  /\ xpc = "idle"
  /\ processed_messages # {}
  /\ processed_messages' = {}
  /\ UNCHANGED <<archiveVars, ledgerVars, signalVars, exchangeVars, traderVars,
                 monitorVars, updaterVars, raw_telegram_messages, executor_trades,
                 contracts, reduce_orders, xpc, xq>>

NextG ==
  \/ \E m \in ExecutorTexts : PostMessage(m)
  \/ \E t \in TradeIds : ExecutorTradeOpened(t)
  \/ ExecutorScan
  \/ \E position_ok \in BOOLEAN, order_ok \in BOOLEAN : ExecutorMessage(position_ok, order_ok)
  \/ ExecutorSleep
  \/ ExecutorRestart

SpecG == InitNoUpdates /\ [][NextG]_vars

\* C40: for every trade the executor places the 40% order of the first
\* partial at most once and the 30% order of the second partial at most once,
\* whatever the order and the repetitions of the +1R and +2R messages.
PartialsAtMostOnce ==
  \A t \in TradeIds : reduce_orders[t][40] <= 1 /\ reduce_orders[t][30] <= 1

====
